---- MODULE Spec2Model ----
(***************************************************************************)
(* Static traffic assignment (src/assignment.py): the link-based solver    *)
(* assignment_loop (MSA / FW / CFW), the path-based gradient-projection    *)
(* solver path_based_gp_method (GP / GP-E), their shared shortest-path,    *)
(* cost and gap routines, and the computeAssingment entry point.           *)
(*                                                                         *)
(* Numbers.  The program computes on floats.  The model computes on exact  *)
(* rationals <<n, d>> with d >= 0 in lowest terms; <<1, 0>> is +infinity   *)
(* (np.inf).  The networks and parameters enumerated below keep every      *)
(* value a small rational, so that two values differ by far more than the  *)
(* 1e-9 to which the program rounds SPTT and TSTT.                         *)
(*                                                                         *)
(* The cost of a closed link is M = np.finfo(np.float32).max =              *)
(* 3.4028234663852886e+38.  <<n, d, k>> with k # 0 is the number            *)
(* (n / d) * M^k.  A float sum keeps the term of the highest power of M    *)
(* alone (M + 1 == M, 1 + 1 / M == 1: the other term is below the last bit *)
(* of the 53-bit mantissa), and so does the sum of the model.              *)
(***************************************************************************)
EXTENDS Integers, Sequences, FiniteSets, TLC

\* ------------------------------------------------------------ rationals

Abs(x) == IF x < 0 THEN -x ELSE x

RECURSIVE GCD(_, _)
GCD(a, b) == IF b = 0 THEN a ELSE GCD(b, a % b)

Norm(n, d) ==
    LET g == GCD(Abs(n), d)
    IN  <<n \div g, d \div g>>

R(n) == <<n, 1>>
Zero == <<0, 1>>
One == <<1, 1>>
Inf == <<1, 0>>

IsInf(a) == a[2] = 0

\* the power of M a number carries
Lev(a) == IF Len(a) = 3 THEN a[3] ELSE 0

RNeg(a) == IF Len(a) = 3 THEN <<-a[1], a[2], a[3]>> ELSE <<-a[1], a[2]>>

\* a + b: of two numbers of different powers of M the float sum is the one
\* of the higher power
Sum(a, b) ==
    IF a[2] = 0 \/ b[2] = 0 THEN Inf
    ELSE IF a[1] = 0 THEN b
    ELSE IF b[1] = 0 THEN a
    ELSE LET ka == IF Len(a) = 3 THEN a[3] ELSE 0
             kb == IF Len(b) = 3 THEN b[3] ELSE 0
             g == GCD(a[2], b[2])
             n == a[1] * (b[2] \div g) + b[1] * (a[2] \div g)
             d == (a[2] \div g) * b[2]
             h == GCD(Abs(n), d)
         IN  IF ka > kb THEN a
             ELSE IF kb > ka THEN b
             ELSE IF n = 0 THEN Zero
             ELSE IF ka = 0 THEN <<n \div h, d \div h>>
             ELSE <<n \div h, d \div h, ka>>

\* a + b of two expressions, each evaluated once
RAdd(a, b) == CHOOSE s \in {Sum(x, y) : x \in {a}, y \in {b}} : TRUE

RSub(a, b) == RAdd(a, RNeg(b))

\* a * b: the powers of M add
Product(a, b) ==
    LET g1 == GCD(Abs(a[1]), b[2])
        g2 == GCD(Abs(b[1]), a[2])
        n == (a[1] \div g1) * (b[1] \div g2)
        d == (a[2] \div g2) * (b[2] \div g1)
        k == (IF Len(a) = 3 THEN a[3] ELSE 0) + (IF Len(b) = 3 THEN b[3] ELSE 0)
    IN  IF k = 0 \/ n = 0 \/ d = 0 THEN <<n, d>> ELSE <<n, d, k>>

\* a * b of two expressions, each evaluated once
RMul(a, b) == CHOOSE p \in {Product(x, y) : x \in {a}, y \in {b}} : TRUE

\* 1 / a, for a # 0 (1 / inf = 0)
RInv(a) ==
    IF a[2] = 0 THEN Zero
    ELSE IF Len(a) = 3
    THEN IF a[1] > 0 THEN <<a[2], a[1], -a[3]>> ELSE <<-a[2], -a[1], -a[3]>>
    ELSE IF a[1] > 0 THEN <<a[2], a[1]>> ELSE <<-a[2], -a[1]>>

RDiv(a, b) == RMul(a, RInv(b))

\* n1 / d1 < n2 / d2 for d1, d2 > 0, by whole parts and then by the
\* reciprocals of the fractional parts, so that no product is formed
RECURSIVE FracLt(_, _, _, _)
FracLt(n1, d1, n2, d2) ==
    LET q1 == n1 \div d1
        q2 == n2 \div d2
        r1 == n1 % d1
        r2 == n2 % d2
    IN  IF q1 # q2 THEN q1 < q2
        ELSE IF r2 = 0 THEN FALSE
        ELSE IF r1 = 0 THEN TRUE
        ELSE FracLt(d2, r2, d1, r1)

\* a < b: by sign, then by the power of M, then by coefficient
Less(a, b) ==
    IF a[2] = 0 \/ b[2] = 0 THEN a[1] * b[2] < b[1] * a[2]
    ELSE IF a[1] <= 0 \/ b[1] <= 0
    THEN IF (a[1] < 0) = (b[1] < 0) /\ a[1] # 0 /\ b[1] # 0
         THEN LET ka == IF Len(a) = 3 THEN a[3] ELSE 0
                  kb == IF Len(b) = 3 THEN b[3] ELSE 0
              IN  IF ka # kb THEN kb < ka ELSE FracLt(a[1], a[2], b[1], b[2])
         ELSE a[1] < b[1]
    ELSE LET ka == IF Len(a) = 3 THEN a[3] ELSE 0
             kb == IF Len(b) = 3 THEN b[3] ELSE 0
         IN  IF ka # kb THEN ka < kb ELSE FracLt(a[1], a[2], b[1], b[2])
\* a < b and a <= b of two expressions, each evaluated once
RLt(a, b) == \E x \in {a}, y \in {b} : Less(x, y)
RLe(a, b) ==
    \E x \in {a}, y \in {b} :
        IF x[2] = 0 \/ y[2] = 0 THEN x[1] * y[2] <= y[1] * x[2] ELSE ~Less(y, x)
RMax(a, b) == IF RLt(a, b) THEN b ELSE a
RMin(a, b) == IF RLt(b, a) THEN b ELSE a

RECURSIVE RPow(_, _)
RPow(x, k) == IF k = 0 THEN One ELSE RMul(x, RPow(x, k - 1))

\* the sum of f[x] over the finite set S
RECURSIVE RSum(_, _)
RSum(f, S) ==
    IF S = {} THEN Zero
    ELSE LET x == CHOOSE y \in S : TRUE
         IN  RAdd(f[x], RSum(f, S \ {x}))

\* v itself, worked out in full where it is written: a function built as
\* [x \in S |-> e] holds its values from here on
Value(v) == CHOOSE z \in {v} : z = z

\* the elements of a sequence
Range(s) == {s[i] : i \in 1..Len(s)}

\* ------------------------------------------------------------- networks
\* What load_network hands to the solvers: nodeSet (with ordered outLinks),
\* linkSet keyed by (init_node, term_node), tripSet, zoneSet[r].destList and
\* originZones.  Node ids are the digits 1..9, which order as the program's
\* id strings do.

Lnk(fft, b, power, capacity, max_capacity) ==
    [fft |-> fft, alpha |-> b, beta |-> power,
     capacity |-> capacity, max_capacity |-> max_capacity,
     curr_capacity_percentage |->
         IF max_capacity = <<0, 1>> THEN <<1, 1>>
         ELSE Norm(capacity[1] * max_capacity[2], capacity[2] * max_capacity[1])]

\* Link.modify_capacity (lines 103-107)
modify_capacity(link, delta_percentage) ==
    LET sum == Norm(link.curr_capacity_percentage[1] * delta_percentage[2]
                        + delta_percentage[1] * link.curr_capacity_percentage[2],
                    link.curr_capacity_percentage[2] * delta_percentage[2])
        percentage == IF sum[1] < 0 THEN <<0, 1>>
                      ELSE IF sum[1] > sum[2] THEN <<1, 1>> ELSE sum
    IN  [link EXCEPT
            !.curr_capacity_percentage = percentage,
            !.capacity = Norm(link.max_capacity[1] * percentage[1],
                              link.max_capacity[2] * percentage[2])]

\* Link.reset (lines 109-111), but for its reset_flow
reset_capacity(link) ==
    [link EXCEPT !.curr_capacity_percentage = <<1, 1>>, !.capacity = link.max_capacity]

\* 1: two nodes, one BPR link (fft 10, b 0.15, power 4, capacity 100), demand 50
NetTwoNode ==
    [nodes |-> 1..2,
     outLinks |-> <<(<<2>>), (<<>>)>>,
     linkSet |-> (<<1, 2>> :> Lnk(R(10), <<3, 20>>, 4, R(100), R(100))),
     tripSet |-> (<<1, 2>> :> R(50)),
     destList |-> (1 :> <<2>>)]

\* 2: three nodes, 1->2->3 at 5 each against a direct 1->3 at 20, demand 10
NetThreeNode ==
    [nodes |-> 1..3,
     outLinks |-> <<(<<2, 3>>), (<<3>>), (<<>>)>>,
     linkSet |-> (<<1, 2>> :> Lnk(R(5), One, 1, R(20), R(20))) @@
                 (<<2, 3>> :> Lnk(R(5), One, 1, R(20), R(20))) @@
                 (<<1, 3>> :> Lnk(R(20), One, 1, R(20), R(20))),
     tripSet |-> (<<1, 3>> :> R(10)),
     destList |-> (1 :> <<3>>)]

\* 3: three parallel two-link routes 1->k->2 (k = 3, 4, 5), every link
\*    fft 1, b 1, power 1, capacity 1; demand 3
NetParallel ==
    [nodes |-> 1..5,
     outLinks |-> <<(<<3, 4, 5>>), (<<>>), (<<2>>), (<<2>>), (<<2>>)>>,
     linkSet |-> [l \in {<<1, 3>>, <<3, 2>>, <<1, 4>>, <<4, 2>>, <<1, 5>>, <<5, 2>>}
                     |-> Lnk(One, One, 1, One, One)],
     tripSet |-> (<<1, 2>> :> R(3)),
     destList |-> (1 :> <<2>>)]

\* 4: destination 3 cannot be reached from origin 1
NetUnreachable ==
    [nodes |-> 1..3,
     outLinks |-> <<(<<2>>), (<<>>), (<<2>>)>>,
     linkSet |-> (<<1, 2>> :> Lnk(One, One, 1, One, One)) @@
                 (<<3, 2>> :> Lnk(One, One, 1, One, One)),
     tripSet |-> (<<1, 2>> :> R(2)) @@ (<<1, 3>> :> One),
     destList |-> (1 :> <<2, 3>>)]

\* 5: the direct link 1->2 is closed (capacity 0); the detour 1->3->2 is open
NetClosed ==
    [nodes |-> 1..3,
     outLinks |-> <<(<<2, 3>>), (<<>>), (<<2>>)>>,
     linkSet |-> (<<1, 2>> :> Lnk(One, One, 1, Zero, Zero)) @@
                 (<<1, 3>> :> Lnk(One, One, 1, One, One)) @@
                 (<<3, 2>> :> Lnk(One, One, 1, One, One)),
     tripSet |-> (<<1, 2>> :> R(2)),
     destList |-> (1 :> <<2>>)]

\* 6: network 1 after modify_capacity(-0.5): capacity 50 of max_capacity 100
NetReduced ==
    [nodes |-> 1..2,
     outLinks |-> <<(<<2>>), (<<>>)>>,
     linkSet |-> (<<1, 2>> :> Lnk(R(10), <<3, 20>>, 4, R(50), R(100))),
     tripSet |-> (<<1, 2>> :> R(50)),
     destList |-> (1 :> <<2>>)]

\* 7: three parallel two-link routes 1->k->2 (k = 3, 4, 5) of unequal links,
\*    demand 6
NetUneven ==
    [nodes |-> 1..5,
     outLinks |-> <<(<<3, 4, 5>>), (<<>>), (<<2>>), (<<2>>), (<<2>>)>>,
     linkSet |-> (<<1, 3>> :> Lnk(One, <<1, 4>>, 1, One, One)) @@
                 (<<3, 2>> :> Lnk(One, <<1, 4>>, 1, One, One)) @@
                 (<<1, 4>> :> Lnk(R(2), R(2), 1, R(2), R(2))) @@
                 (<<4, 2>> :> Lnk(One, One, 1, R(2), R(2))) @@
                 (<<1, 5>> :> Lnk(R(2), R(2), 1, R(4), R(4))) @@
                 (<<5, 2>> :> Lnk(R(2), R(3), 1, R(4), R(4))),
     tripSet |-> (<<1, 2>> :> R(6)),
     destList |-> (1 :> <<2>>)]

\* 8: two OD pairs 1->3 (demand 2) and 1->4 (demand 1) whose routes through
\*    node 2 share the link 1->2; 1->3 is also a direct link
NetShared ==
    [nodes |-> 1..4,
     outLinks |-> <<(<<2, 3>>), (<<3, 4>>), (<<>>), (<<>>)>>,
     linkSet |-> (<<1, 2>> :> Lnk(One, One, 1, One, One)) @@
                 (<<2, 3>> :> Lnk(One, One, 1, One, One)) @@
                 (<<2, 4>> :> Lnk(One, One, 1, One, One)) @@
                 (<<1, 3>> :> Lnk(R(3), One, 1, One, One)),
     tripSet |-> (<<1, 3>> :> R(2)) @@ (<<1, 4>> :> One),
     destList |-> (1 :> <<3, 4>>)]

\* 9: a graph with the cycles 1->2->1 and 1->2->3->1 and 1->3->1; node 4
\*    has a link to node 1 and none into it.  OD pairs from origin 1: to 3
\*    (demand 2), to 4 (demand 1), to 2 (demand 0) and to 1 itself (demand
\*    1); from origin 4: to 3 (demand 1)
NetCyclic ==
    [nodes |-> 1..4,
     outLinks |-> <<(<<2, 3>>), (<<3, 1>>), (<<1>>), (<<1>>)>>,
     linkSet |-> [l \in {<<1, 2>>, <<1, 3>>, <<2, 3>>, <<2, 1>>, <<3, 1>>, <<4, 1>>}
                     |-> Lnk(One, One, 1, One, One)],
     tripSet |-> (<<1, 3>> :> R(2)) @@ (<<1, 4>> :> One) @@ (<<1, 2>> :> Zero) @@
                 (<<1, 1>> :> One) @@ (<<4, 3>> :> One),
     destList |-> (1 :> <<3, 4, 2, 1>>) @@ (4 :> <<3>>)]

\* 10: network 9 without the OD pair 1->4, whose destination no path reaches
NetCyclicReachable ==
    [NetCyclic EXCEPT
        !.tripSet = (<<1, 3>> :> R(2)) @@ (<<1, 2>> :> Zero) @@ (<<1, 1>> :> One) @@
                    (<<4, 3>> :> One),
        !.destList = (1 :> <<3, 2, 1>>) @@ (4 :> <<3>>)]

\* 11: two two-link routes 1->3->2 (free-flow time 4) and 1->4->2
\*     (free-flow time 3), demand 1
NetTwoRoutes ==
    [nodes |-> 1..4,
     outLinks |-> <<(<<3, 4>>), (<<>>), (<<2>>), (<<2>>)>>,
     linkSet |-> (<<1, 3>> :> Lnk(One, <<1, 2>>, 1, R(2), R(2))) @@
                 (<<3, 2>> :> Lnk(R(3), <<1, 2>>, 1, R(4), R(4))) @@
                 (<<1, 4>> :> Lnk(R(2), <<1, 2>>, 1, R(2), R(2))) @@
                 (<<4, 2>> :> Lnk(One, <<1, 4>>, 1, R(4), R(4))),
     tripSet |-> (<<1, 2>> :> One),
     destList |-> (1 :> <<2>>)]

\* 12: OD pair 1->2 (demand 1) has the routes 1->3->2 (free-flow time 2) and
\*     1->4->2 (free-flow time 4); with the whole demand on 1->3->2 both cost
\*     4.  OD pair 1->5 (demand 2) has the link 1->5 and the route 1->6->5
NetTied ==
    [nodes |-> 1..6,
     outLinks |-> <<(<<3, 4, 5, 6>>), (<<>>), (<<2>>), (<<2>>), (<<>>), (<<5>>)>>,
     linkSet |-> (<<1, 3>> :> Lnk(One, One, 1, One, One)) @@
                 (<<3, 2>> :> Lnk(One, One, 1, One, One)) @@
                 (<<1, 4>> :> Lnk(One, One, 1, One, One)) @@
                 (<<4, 2>> :> Lnk(R(3), One, 1, One, One)) @@
                 (<<1, 5>> :> Lnk(One, One, 1, One, One)) @@
                 (<<1, 6>> :> Lnk(One, One, 1, One, One)) @@
                 (<<6, 5>> :> Lnk(One, One, 1, One, One)),
     tripSet |-> (<<1, 2>> :> One) @@ (<<1, 5>> :> R(2)),
     destList |-> (1 :> <<2, 5>>)]

Networks ==
    <<NetTwoNode, NetThreeNode, NetParallel, NetUnreachable, NetClosed, NetReduced,
      NetUneven, NetShared, NetCyclic, NetCyclicReachable, NetTwoRoutes, NetTied>>

Links(net) == DOMAIN net.linkSet
ODs(net) == DOMAIN net.tripSet
originZones(net) == {od[1] : od \in ODs(net)}

\* ------------------------------------------------------- cost functions

\* np.finfo(np.float32).max, the cost of a closed link: M itself
FloatMax == <<1, 1, 1>>

CapacityClosed(capacity) == RLt(capacity, <<1, 1000>>)

BPRcostFunction(optimal, fft, alpha, flow, capacity, beta) ==
    IF CapacityClosed(capacity) THEN FloatMax
    ELSE LET x == RPow(RDiv(flow, capacity), beta)
         IN  IF optimal
             THEN RMul(fft, RAdd(One, RMul(RMul(alpha, x), R(beta + 1))))
             ELSE RMul(fft, RAdd(One, RMul(alpha, x)))

constantCostFunction(optimal, fft, alpha, flow, capacity, beta) ==
    IF optimal THEN RAdd(fft, flow) ELSE fft

\* flow / capacity raises ZeroDivisionError when capacity = 0
DivisionRaises(capacity) == capacity = Zero

\* greenshieldsCostFunction divides by maxSpeed * (1 - flow / capacity), or by
\* maxSpeed * (capacity - flow) ** 2: ZeroDivisionError when that is 0
GreenshieldsRaises(optimal, flow, capacity, length, maxSpeed) ==
    /\ ~CapacityClosed(capacity)
    /\ \/ maxSpeed = Zero
       \/ flow = capacity

\* defined when ~GreenshieldsRaises(...)
greenshieldsCostFunction(optimal, flow, capacity, length, maxSpeed) ==
    IF CapacityClosed(capacity) THEN FloatMax
    ELSE IF optimal
    THEN RDiv(RMul(length, RMul(capacity, capacity)),
              RMul(maxSpeed, RMul(RSub(capacity, flow), RSub(capacity, flow))))
    ELSE RDiv(length, RMul(maxSpeed, RSub(One, RDiv(flow, capacity))))

\* defined when ~DivisionRaises(capacity)
BPRcostFunctionDerivative(optimal, fft, alpha, flow, capacity, beta) ==
    RDiv(RMul(RMul(RMul(fft, alpha), R(beta)), RPow(RDiv(flow, capacity), beta - 1)),
         capacity)

\* defined when ~DivisionRaises(capacity)
BPRcostFunctionIntegral(optimal, fft, alpha, flow, capacity, beta) ==
    RMul(fft, RAdd(flow, RDiv(RMul(RMul(alpha, flow), RPow(RDiv(flow, capacity), beta)),
                              R(1 + beta))))

CostOf(costFunction, optimal, l, flow, capacity) ==
    IF costFunction = "BPR"
    THEN BPRcostFunction(optimal, l.fft, l.alpha, flow, capacity, l.beta)
    ELSE constantCostFunction(optimal, l.fft, l.alpha, flow, capacity, l.beta)

\* the link costs updateTravelTime leaves for the flows fl
updateTravelTime(net, fl, optimal, costFunction) ==
    [l \in Links(net) |->
        CostOf(costFunction, optimal, net.linkSet[l], fl[l], net.linkSet[l].capacity)]

\* Link.reset_flow on every link: flow 0.0 and cost fft
ResetFlow(net) == [l \in Links(net) |-> Zero]
ResetCost(net) == [l \in Links(net) |-> net.linkSet[l].fft]

\* -------------------------------------------------------- shortest paths

\* heapq's order on (label, node) entries
HeapLess(a, b) == RLt(a[1], b[1]) \/ (a[1] = b[1] /\ a[2] < b[2])
HeapMin(SE) == CHOOSE a \in SE : \A b \in SE \ {a} : HeapLess(a, b)

\* the while loop of DijkstraHeap: SE is the heap, st = [label, pred] per
\* node (pred 0 is None)
RECURSIVE DijkstraLoop(_, _, _, _)
DijkstraLoop(net, co, SE, st) ==
    IF SE = {} THEN st
    ELSE LET top == HeapMin(SE)
             currentNode == top[2]
             currentLabel == st.label[currentNode]
             better == {toNode \in Range(net.outLinks[currentNode]) :
                          RLt(RAdd(currentLabel, co[<<currentNode, toNode>>]),
                              st.label[toNode])}
             newLabel(toNode) == RAdd(currentLabel, co[<<currentNode, toNode>>])
         IN  DijkstraLoop(net, co,
                (SE \ {top}) \cup {<<newLabel(n), n>> : n \in better},
                [label |-> [n \in net.nodes |->
                               IF n \in better THEN newLabel(n) ELSE st.label[n]],
                 pred |-> [n \in net.nodes |->
                               IF n \in better THEN currentNode ELSE st.pred[n]]])

\* the search that counts links in place of their costs
DijkstraHeapHops(origin, net, co) ==
    DijkstraLoop(net, [l \in DOMAIN co |-> One], {<<Zero, origin>>},
        [label |-> [n \in net.nodes |-> IF n = origin THEN Zero ELSE Inf],
         pred |-> [n \in net.nodes |-> 0]])

DijkstraHeap(origin, net, co) ==
    DijkstraLoop(net, co, {<<Zero, origin>>},
        [label |-> [n \in net.nodes |-> IF n = origin THEN Zero ELSE Inf],
         pred |-> [n \in net.nodes |-> 0]])

\* the links (prevNode, dest) from dest back to the origin
RECURSIVE tracePreds(_, _)
tracePreds(dest, pred) ==
    IF pred[dest] = 0 THEN <<>>
    ELSE <<(<<pred[dest], dest>>)>> \o tracePreds(pred[dest], pred)


\* ------------------------------------------------ all-or-nothing loading

ODPairs(net) == {<<r, s>> : r \in originZones(net), s \in net.nodes} \cap
                {od \in ODs(net) : od[2] \in Range(net.destList[od[1]])}

\* the OD pairs loadAON and cal_shortest_routes do not skip (dem > 0)
LoadedODs(net) == {od \in ODPairs(net) : RLt(Zero, net.tripSet[od])}

\* the node labels and preds the last DijkstraHeap call of a sweep over
\* originZones leaves behind (every network above has one origin)
LastOrigin(net) == CHOOSE r \in originZones(net) : \A q \in originZones(net) : q <= r
NodeStateAfterSweep(net, co) == DijkstraHeap(LastOrigin(net), net, co)

\* loadAON: SPTT, the sum of label x demand
loadAON_SPTT(net, co) ==
    LET sp == [r \in originZones(net) |-> DijkstraHeap(r, net, co)]
    IN  RSum([od \in LoadedODs(net) |-> RMul(sp[od[1]].label[od[2]], net.tripSet[od])],
             LoadedODs(net))

\* x_bar when a link keeps the demand of one OD pair in place of the sum
loadAON_xbar_one(net, co, computeXbar) ==
    LET sp == [r \in originZones(net) |-> DijkstraHeap(r, net, co)]
        path == [od \in LoadedODs(net) |-> tracePreds(od[2], sp[od[1]].pred)]
        on(l) == {od \in LoadedODs(net) : od[1] # od[2] /\ l \in Range(path[od])}
    IN  [l \in Links(net) |->
            IF computeXbar /\ on(l) # {}
            THEN net.tripSet[CHOOSE od \in on(l) : TRUE]
            ELSE Zero]

\* loadAON: x_bar, the demand of every OD pair on the links of its traced route
loadAON_xbar(net, co, computeXbar) ==
    LET sp == [r \in originZones(net) |-> DijkstraHeap(r, net, co)]
        path == [od \in LoadedODs(net) |-> tracePreds(od[2], sp[od[1]].pred)]
    IN  [l \in Links(net) |->
            IF computeXbar
            THEN RSum(net.tripSet,
                      {od \in LoadedODs(net) : od[1] # od[2] /\ l \in Range(path[od])})
            ELSE Zero]

\* sum of flow x link cost (the TSTT of the gap)
GapTSTT(net, fl, co) == RSum([l \in Links(net) |-> RMul(fl[l], co[l])], Links(net))

\* get_TSTT with the links' current capacity in place of max_capacity
get_TSTT_capacity(net, fl, costFunction) ==
    RSum([l \in Links(net) |->
            RMul(fl[l], CostOf(costFunction, FALSE, net.linkSet[l], fl[l],
                               net.linkSet[l].capacity))],
         Links(net))

\* get_TSTT: flow x costFunction(optimal = False, capacity = max_capacity)
get_TSTT(net, fl, costFunction) ==
    RSum([l \in Links(net) |->
            RMul(fl[l], CostOf(costFunction, FALSE, net.linkSet[l], fl[l],
                               net.linkSet[l].max_capacity))],
         Links(net))

\* ------------------------------------------------- link-based step sizes

\* the derivative of a link at its current flow, as calculate_conjugate_beta
\* and calculate_second_derivative ask for it
LinkDerivative(net, fl, optimal, l) ==
    BPRcostFunctionDerivative(optimal, net.linkSet[l].fft, net.linkSet[l].alpha, fl[l],
                              net.linkSet[l].capacity, net.linkSet[l].beta)

\* both sums of calculate_conjugate_beta run over every link
ConjugateBetaRaises(net) == \E l \in Links(net) : DivisionRaises(net.linkSet[l].capacity)

OneMinusEps == <<999999999, 1000000000>>

calculate_conjugate_beta(net, fl, d_FW, d_bar, optimal) ==
    LET beta_numerator ==
            RSum([l \in Links(net) |->
                    RMul(RMul(d_bar[l], d_FW[l]), LinkDerivative(net, fl, optimal, l))],
                 Links(net))
        beta_denominator ==
            RSum([l \in Links(net) |->
                    RMul(RMul(d_bar[l], RSub(d_FW[l], d_bar[l])),
                         LinkDerivative(net, fl, optimal, l))],
                 Links(net))
        beta == RDiv(beta_numerator, beta_denominator)
    IN  IF beta_denominator = Zero THEN Zero
        ELSE IF RLt(OneMinusEps, beta) THEN OneMinusEps
        ELSE IF RLt(beta, Zero) THEN Zero
        ELSE beta

\* the line-search result taken as it comes
Unclamped(x) == x

Clamp01(x) == RMax(Zero, RMin(One, x))

\* findAlpha.  minimize calls the objective on a numpy array, whose
\* division by a capacity of 0.0 raises nothing: the objective is then inf
\* or nan at every alpha and minimize returns its starting point x0 = 0.5, as
\* it does where no link flow moves (a constant objective).  The derivative
\* of the objective is the sum over the links of d times the link's cost at
\* the blended flow.  Where every link has power 1 that is A + B alpha: the
\* objective is a parabola and minimize returns its vertex -A / B, or runs
\* away down a straight line (B = 0) until the clamp cuts it to 0 or 1.
\* Where every power is even and no d is negative (positive) the derivative
\* is positive (negative) at every alpha, and the clamp again gives 0 (1).
\* Anywhere else the value minimize returns is given by the oracle sol.
findAlpha(x_bar, net, fl, sol) ==
    LET d == [l \in Links(net) |-> RSub(x_bar[l], fl[l])]
        x0 == <<1, 2>>
        A == RSum([l \in Links(net) |->
                     RMul(d[l], BPRcostFunction(FALSE, net.linkSet[l].fft,
                                    net.linkSet[l].alpha, fl[l],
                                    net.linkSet[l].capacity, net.linkSet[l].beta))],
                  Links(net))
        B == RSum([l \in Links(net) |->
                     RDiv(RMul(RMul(net.linkSet[l].fft, net.linkSet[l].alpha),
                               RMul(d[l], d[l])),
                          net.linkSet[l].capacity)],
                  Links(net))
        free == RSum([l \in Links(net) |-> RMul(d[l], net.linkSet[l].fft)], Links(net))
        linear == \A l \in Links(net) : net.linkSet[l].beta = 1
        even == \A l \in Links(net) : net.linkSet[l].beta % 2 = 0
        rising == \A l \in Links(net) : RLe(Zero, d[l])
        falling == \A l \in Links(net) : RLe(d[l], Zero)
    IN  IF \E l \in Links(net) : DivisionRaises(net.linkSet[l].capacity) THEN x0
        ELSE IF \A l \in Links(net) : d[l] = Zero THEN x0
        ELSE IF linear /\ RLt(Zero, B) THEN Clamp01(RDiv(RNeg(A), B))
        ELSE IF linear
        THEN IF RLt(Zero, A) THEN Zero ELSE IF RLt(A, Zero) THEN One ELSE x0
        ELSE IF even /\ (rising \/ falling)
        THEN IF RLt(Zero, free) THEN Zero ELSE IF RLt(free, Zero) THEN One ELSE x0
        ELSE Clamp01(sol)

\* ------------------------------------------------------ path-based routes

Route(r, s, c, links, f) == [r |-> r, s |-> s, cost |-> c, links |-> links, flow |-> f]

cal_shortest_routes(net, co) ==
    LET sp == [r \in originZones(net) |-> DijkstraHeap(r, net, co)]
    IN  [od \in LoadedODs(net) |->
            Route(od[1], od[2], sp[od[1]].label[od[2]],
                  IF od[1] # od[2] THEN tracePreds(od[2], sp[od[1]].pred) ELSE <<>>,
                  Zero)]

\* the sum of g(s[i]) over the indices of a sequence
RECURSIVE SeqSum(_, _)
SeqSum(s, i) == IF i = 0 THEN Zero ELSE RAdd(s[i], SeqSum(s, i - 1))

\* the link flows when only the first route of every OD pair is counted
update_network_flow_first(net, routes) ==
    [l \in Links(net) |->
        RSum([od \in DOMAIN routes |->
                IF Len(routes[od]) >= 1 /\ l \in Range(routes[od][1].links)
                THEN routes[od][1].flow ELSE Zero],
             DOMAIN routes)]

\* update_network_flow after its reset_flow: every route's flow on its links
update_network_flow(net, routes) ==
    [l \in Links(net) |->
        RSum([od \in DOMAIN routes |->
                SeqSum([i \in 1..Len(routes[od]) |->
                          IF l \in Range(routes[od][i].links)
                          THEN routes[od][i].flow ELSE Zero],
                       Len(routes[od]))],
             DOMAIN routes)]

update_routes_cost(net, co, routes) ==
    [od \in DOMAIN routes |->
        [i \in 1..Len(routes[od]) |->
            [routes[od][i] EXCEPT
                !.cost = RSum(co, Range(routes[od][i].links))]]]

SymDiff(S, T) == (S \ T) \cup (T \ S)

SecondDerivativeRaises(net, route, shortest_route) ==
    \E l \in SymDiff(Range(route.links), Range(shortest_route.links)) :
        DivisionRaises(net.linkSet[l].capacity)

calculate_second_derivative(net, fl, route, shortest_route) ==
    LET link_set == SymDiff(Range(route.links), Range(shortest_route.links))
    IN  RSum([l \in link_set |-> LinkDerivative(net, fl, FALSE, l)], link_set)

\* obtain_step_direction for one OD pair: the routes from index i on, with
\* shortest_route the route held when the loop reaches index i
RECURSIVE DirectionsFrom(_, _, _, _, _)
DirectionsFrom(net, fl, OD_routes, shortest_route, i) ==
    IF i > Len(OD_routes) THEN <<>>
    ELSE LET route == OD_routes[i]
             same == SymDiff(Range(route.links), Range(shortest_route.links)) = {}
             h == calculate_second_derivative(net, fl, route, shortest_route)
             dir == IF same THEN Zero
                    ELSE IF h = Zero THEN Inf
                    ELSE RDiv(RSub(route.cost, shortest_route.cost), h)
         IN  <<dir>> \o DirectionsFrom(net, fl, OD_routes,
                                       IF same THEN route ELSE shortest_route, i + 1)

obtain_step_direction(routes, shortest_routes, net, fl) ==
    [od \in DOMAIN routes |->
        DirectionsFrom(net, fl, routes[od], shortest_routes[od], 1)]

\* whether obtain_step_direction raises: some route that differs from the
\* shortest route differs from it in a link of capacity 0
StepDirectionRaises(routes, shortest_routes, net) ==
    \E od \in DOMAIN routes : \E i \in 1..Len(routes[od]) :
        SecondDerivativeRaises(net, routes[od][i], shortest_routes[od])

\* the route flow the loops at lines 612-617 and 678-685 try for a route
\* whose direction is not taken for 0: max(0, flow - alpha * direction)
ShiftedFlow(route, alpha, dir) ==
    IF IsInf(dir) THEN Zero
    ELSE RMax(Zero, RSub(route.flow, RMul(alpha, dir)))

\* the route flows the objective of the exact line search tries at alpha = a
\* (lines 612-614: every route of the list, the ones of direction 0 too)
LineSearchRouteFlow(routes, step_direction, a) ==
    Value([od \in DOMAIN routes |->
             [i \in 1..Len(routes[od]) |->
                 ShiftedFlow(routes[od][i], a, step_direction[od][i])]])

\* tmp_link_flow of the objective (lines 607-620): the tried route flows on
\* their links and, on the links of shortest_routes[OD], the rest of the demand.
\* tmp is tmp_route_flow, filled (lines 612-614) before it is read
LineSearchLinkFlow(net, routes, shortest_routes, step_direction, a) ==
    CHOOSE y \in
        {[l \in Links(net) |->
            RSum([od \in DOMAIN routes |->
                    RAdd(SeqSum([i \in 1..Len(routes[od]) |->
                                   IF l \in Range(routes[od][i].links)
                                   THEN tmp[od][i] ELSE Zero],
                                Len(routes[od])),
                         IF l \in Range(shortest_routes[od].links)
                         THEN RSub(net.tripSet[od], SeqSum(tmp[od], Len(routes[od])))
                         ELSE Zero)],
                 DOMAIN routes)] :
           tmp \in {LineSearchRouteFlow(routes, step_direction, a)}} :
        y = y

\* the objective of the exact line search at alpha = a (lines 621-632);
\* defined when no link has capacity 0.  y is tmp_link_flow, filled (lines
\* 607-620) before the sum reads it
LineSearchObjective(net, routes, shortest_routes, step_direction, a) ==
    CHOOSE z \in
        {RSum([l \in Links(net) |->
                 BPRcostFunctionIntegral(FALSE, net.linkSet[l].fft, net.linkSet[l].alpha,
                                         y[l], net.linkSet[l].capacity,
                                         net.linkSet[l].beta)],
              Links(net)) :
           y \in {LineSearchLinkFlow(net, routes, shortest_routes, step_direction, a)}} :
        TRUE

\* minimize starts the line search at x0 = 0.1
LineSearchStart == <<1, 10>>

\* minimize calls the objective on a numpy array.  A tried route flow is an
\* array where it is positive and the int 0 of max(0, .) where it is not; the
\* flow tried on a link is an array when one of the flows added to it is,
\* and the rest of the demand is an array when a tried flow of its OD pair is.
\* Dividing an array by a capacity of 0.0 raises nothing; dividing a Python
\* number by it raises ZeroDivisionError.
LineSearchRaises(net, routes, shortest_routes, step_direction) ==
    LET tmp == LineSearchRouteFlow(routes, step_direction, LineSearchStart)
        isArray(l) ==
            \E od \in DOMAIN routes : \E i \in 1..Len(routes[od]) :
                /\ RLt(Zero, tmp[od][i])
                /\ \/ l \in Range(routes[od][i].links)
                   \/ l \in Range(shortest_routes[od].links)
    IN  \E l \in Links(net) : DivisionRaises(net.linkSet[l].capacity) /\ ~isArray(l)

\* the stretches between two neighbours of a set of points
LineSearchPieces(points) ==
    {pq \in points \X points :
        /\ RLt(pq[1], pq[2])
        /\ ~\E x \in points : RLt(pq[1], x) /\ RLt(x, pq[2])}

LineSearchMid(pq) == RDiv(RAdd(pq[1], pq[2]), R(2))

\* obj at the ends of a stretch less twice obj at its middle: positive where
\* the parabola through the three values opens upwards
LineSearchBend(pq, obj) ==
    RAdd(RSub(obj[pq[1]], RMul(R(2), obj[LineSearchMid(pq)])), obj[pq[2]])

\* the vertex of that parabola, for LineSearchBend(pq, obj) # 0
LineSearchVertex(pq, obj) ==
    RSub(LineSearchMid(pq),
         RDiv(RMul(RDiv(RSub(pq[2], pq[1]), R(2)), RSub(obj[pq[2]], obj[pq[1]])),
              RMul(R(2), LineSearchBend(pq, obj))))

\* the vertices that lie in their stretch
LineSearchInner(points, obj) ==
    {LineSearchVertex(pq, obj) :
        pq \in {x \in LineSearchPieces(points) :
                  /\ RLt(Zero, LineSearchBend(x, obj))
                  /\ RLe(x[1], LineSearchVertex(x, obj))
                  /\ RLe(LineSearchVertex(x, obj), x[2])}}

\* the largest of the points where obj is least
LineSearchLeast(tried, obj) ==
    LET least == {x \in tried : \A z \in tried : RLe(obj[x], obj[z])}
    IN  CHOOSE x \in least : \A z \in least : RLe(z, x)

\* the value minimize returns in exact_line_search_for_path_based_gp.  With
\* a link of capacity 0 the objective is inf or nan and minimize returns x0,
\* as it does where no tried route flow changes with alpha around x0.  Where
\* every link has power 1 the objective is a parabola between two
\* neighbours of the points where a tried route flow reaches 0: the value
\* returned, once clamped, is the alpha of [0, 1] with the least objective,
\* the largest of them where the objective is level from there on (the
\* first trial step of minimize lands past 1).  Anywhere else the value is
\* given by the oracle sol.
LineSearchSolution(net, routes, shortest_routes, step_direction, sol) ==
    LET F(a) == LineSearchObjective(net, routes, shortest_routes, step_direction, a)
        idx == UNION {{<<od, i>> : i \in 1..Len(routes[od])} : od \in DOMAIN routes}
        dirOf(k) == step_direction[k[1]][k[2]]
        flowOf(k) == routes[k[1]][k[2]].flow
        level(k) == \/ dirOf(k) = Zero
                    \/ IsInf(dirOf(k))
                    \/ /\ RLt(Zero, dirOf(k))
                       /\ RLe(flowOf(k), RMul(LineSearchStart, dirOf(k)))
        breaks == {RDiv(flowOf(k), dirOf(k)) :
                     k \in {j \in idx : dirOf(j) # Zero /\ ~IsInf(dirOf(j))}}
        points == {Zero, One} \cup {x \in breaks : RLt(Zero, x) /\ RLt(x, One)}
        mids == {LineSearchMid(pq) : pq \in LineSearchPieces(points)}
        tried == points \cup UNION {LineSearchInner(points, obj) :
                                      obj \in {Value([x \in points \cup mids |-> F(x)])}}
    IN  IF \E l \in Links(net) : DivisionRaises(net.linkSet[l].capacity)
        THEN LineSearchStart
        ELSE IF \A k \in idx : level(k) THEN LineSearchStart
        ELSE IF \A l \in Links(net) : net.linkSet[l].beta = 1
        THEN CHOOSE x \in {LineSearchLeast(t, Value([z \in t |-> F(z)])) : t \in {tried}} : TRUE
        ELSE sol

\* exact_line_search_for_path_based_gp: minimize's result sol, clamped, and
\* 1e-2 in place of 0
exact_line_search_alpha(sol) ==
    LET alpha == Clamp01(sol)
    IN  IF alpha = Zero THEN <<1, 100>> ELSE alpha

\* the flow shift of path_based_gp_method for one OD pair (lines 674-687)
ShiftOD(OD_routes, shortest_route0, dirs, alpha, demand) ==
    LET idx == 1..Len(OD_routes)
        zero == {i \in idx : dirs[i] = Zero}
        is_append == zero = {}
        \* the route the loop leaves in shortest_route: the last with direction 0
        last == CHOOSE i \in zero : \A j \in zero : j <= i
        moved == [i \in idx |->
                    IF i \in zero THEN OD_routes[i]
                    ELSE [OD_routes[i] EXCEPT
                            !.flow = ShiftedFlow(OD_routes[i], alpha, dirs[i])]]
        flow_sum == SeqSum([i \in idx |-> IF i \in zero THEN Zero ELSE moved[i].flow],
                           Len(OD_routes))
        rest == RSub(demand, flow_sum)
    IN  IF is_append
        THEN moved \o <<[shortest_route0 EXCEPT !.flow = rest]>>
        ELSE [moved EXCEPT ![last].flow = rest]


\* ------------------------------------------------------- configurations

MaxIterBound == 4

KnownAlgorithms == {"MSA", "FW", "CFW", "GP", "GP-E"}

\* "XX" is an algorithm name the program does not know
AlgorithmsOf(entry) ==
    CASE entry = "computeAssingment" -> KnownAlgorithms \cup {"XX"}
      [] entry = "assignment_loop" -> {"MSA", "FW", "CFW", "XX"}
      [] entry = "path_based_gp_method" -> {"GP", "GP-E", "XX"}

\* what scipy's minimize returns where the model does not compute it, one
\* value per iteration number
DefaultOracle == [i \in 1..MaxIterBound |-> <<1, 2>>]

StepSizesOf(n, entry, algorithm) ==
    IF n = 7 THEN {<<3, 2>>}
    ELSE IF algorithm \in {"GP", "XX"} /\ entry # "assignment_loop" /\ n \in {3, 5}
    THEN {<<1, 2>>, One} ELSE {<<1, 2>>}

\* network 7 is run by GP one iteration longer than the others
MaxItersOf(n) ==
    IF n = 7 THEN {MaxIterBound, MaxIterBound + 1} ELSE {0, 1, 2, MaxIterBound}

Configs ==
    {c \in [net : 1..Len(Networks),
            entry : {"computeAssingment", "assignment_loop", "path_based_gp_method"},
            algorithm : KnownAlgorithms \cup {"XX"},
            systemOptimal : BOOLEAN,
            costFunction : {"BPR", "constant"},
            accuracy : {<<1, 1000>>, <<1, 2>>, <<1, 1000000>>},
            maxIter : {0, 1, 2, MaxIterBound, MaxIterBound + 1},
            verbose : BOOLEAN,
            step_size : {<<1, 2>>, One, <<3, 2>>},
            oracle : {DefaultOracle}] :
        /\ c.algorithm \in AlgorithmsOf(c.entry)
        /\ c.systemOptimal => c.net \in {1, 3, 11}
        /\ c.costFunction = "constant" => c.net \in {2, 3}
        /\ c.maxIter \in MaxItersOf(c.net)
        /\ c.maxIter = 0 => c.net = 1
        /\ c.accuracy = <<1, 1000000>> <=> (c.net = 7 /\ c.algorithm = "CFW")
        /\ c.net = 7 => /\ \/ /\ c.entry = "path_based_gp_method"
                              /\ c.algorithm = "GP"
                              /\ c.maxIter = MaxIterBound + 1
                              /\ c.accuracy = <<1, 1000>>
                           \/ /\ c.entry = "assignment_loop"
                              /\ c.algorithm = "CFW"
                              /\ c.maxIter = MaxIterBound
                              /\ ~c.verbose
                        /\ c.costFunction = "BPR"
        /\ c.net \notin {9, 10}
        \* computeAssingment loads its network: capacity = max_capacity
        /\ c.net = 6 => c.entry # "computeAssingment"
        /\ c.net = 11 => /\ c.entry = "assignment_loop" /\ c.algorithm # "XX"
                         /\ c.systemOptimal /\ c.accuracy = <<1, 1000>>
                         /\ c.maxIter = MaxIterBound /\ ~c.verbose
        /\ c.net = 8 => /\ c.entry # "computeAssingment" /\ c.algorithm # "XX"
                        /\ c.accuracy = <<1, 1000>> /\ c.maxIter = MaxIterBound
                        /\ ~c.verbose
        /\ c.net = 12 => /\ c.entry = "path_based_gp_method" /\ c.algorithm = "GP"
                         /\ c.accuracy = <<1, 1000>> /\ c.maxIter = MaxIterBound
                         /\ ~c.verbose
        /\ c.step_size \in StepSizesOf(c.net, c.entry, c.algorithm)}

\* ----------------------------------------------------------------- state

VARIABLES
    cfg,               \* the call: network, entry point and its arguments
    network,           \* the FlowTransportNetwork object but for Link.flow and
                       \* Link.cost: links' parameters, adjacency, demand, zones
    flow, cost,        \* Link.flow and Link.cost of every link
    label, pred,       \* Node.label and Node.pred of every node (pred 0: None)
    pc,                \* where the call stands
    solver,            \* the solver function running ("none": not running)
    iteration_number, gap, TSTT, alpha, x_bar, d_CFW, verbose,
    routes, shortest_routes,
    appended,          \* the OD pairs whose Route object in shortest_routes is
                       \* also in routes: appended to it in this iteration
    reports,           \* the status lines printed by the current run, in order
    err,               \* the exception that ended the run ("none": none)
    written,           \* writeResults has written the result file
    iters,             \* iterations the current run has started
    timedOut,          \* some run of this behaviour ended on the time limit
    run, firstTSTT, firstFlow   \* the run number; what run 1 returned and left

vars == <<cfg, network, flow, cost, label, pred, pc, solver, iteration_number, gap, TSTT, alpha,
          x_bar, d_CFW, verbose, routes, shortest_routes, appended, reports, err,
          written, iters, timedOut, run, firstTSTT, firstFlow>>

net == network

\* a local that no statement has bound yet
Unbound == <<0, 0>>

ZeroLinks == [l \in Links(net) |-> Zero]

Init ==
    /\ cfg \in Configs
    /\ network = Networks[cfg.net]
    /\ flow = [l \in Links(Networks[cfg.net]) |-> Zero]
    /\ cost = [l \in Links(Networks[cfg.net]) |-> Networks[cfg.net].linkSet[l].fft]
    /\ label = [n \in Networks[cfg.net].nodes |-> Inf]
    /\ pred = [n \in Networks[cfg.net].nodes |-> 0]
    /\ pc = IF cfg.entry = "computeAssingment" THEN "dispatch" ELSE "start"
    /\ solver = IF cfg.entry = "computeAssingment" THEN "none" ELSE cfg.entry
    /\ iteration_number = 0
    /\ gap = Unbound
    /\ TSTT = Unbound
    /\ alpha = Unbound
    /\ x_bar = [l \in Links(Networks[cfg.net]) |-> Zero]
    /\ d_CFW = [l \in Links(Networks[cfg.net]) |-> Zero]
    /\ verbose = cfg.verbose
    /\ routes = <<>>
    /\ shortest_routes = <<>>
    /\ appended = {}
    /\ reports = <<>>
    /\ err = "none"
    /\ written = FALSE
    /\ iters = 0
    /\ timedOut = FALSE
    /\ run = 1
    /\ firstTSTT = Unbound
    /\ firstFlow = [l \in Links(Networks[cfg.net]) |-> Zero]

Raise(e) == pc' = "error" /\ err' = e

\* computeAssingment, lines 851-857: the solver is chosen by algorithm name;
\* a name in neither list falls through to writeResults
Dispatch ==
    /\ pc = "dispatch"
    /\ IF cfg.algorithm \in {"FW", "MSA", "CFW"}
       THEN solver' = "assignment_loop" /\ pc' = "start"
       ELSE IF cfg.algorithm \in {"GP", "GP-E"}
       THEN solver' = "path_based_gp_method" /\ pc' = "start"
       ELSE solver' = "none" /\ pc' = "write"
    /\ UNCHANGED <<cfg, network, flow, cost, label, pred, iteration_number, gap, TSTT,
                   alpha, x_bar, d_CFW, verbose, routes, shortest_routes, reports, err,
                   written, iters, timedOut, run, firstTSTT, firstFlow, appended>>

\* Reset with FlowTransportNetwork.reset in place of reset_flow: Link.reset
\* also puts every capacity back to max_capacity
ResetCapacity ==
    /\ pc = "start"
    /\ network' = [network EXCEPT !.linkSet =
                       [l \in Links(network) |-> reset_capacity(network.linkSet[l])]]
    /\ flow' = ResetFlow(net)
    /\ cost' = ResetCost(net)
    /\ iteration_number' = 1
    /\ gap' = Inf
    /\ TSTT' = Inf
    /\ routes' = IF solver = "path_based_gp_method"
                 THEN [od \in ODPairs(net) |-> <<>>] ELSE <<>>
    /\ pc' = "while"
    /\ UNCHANGED <<cfg, label, pred, solver, alpha, x_bar, d_CFW, verbose, shortest_routes,
                   reports, err, written, iters, timedOut, run, firstTSTT, firstFlow,
                   appended>>

\* Reset with a reset_flow that zeroes the flows and leaves the costs
ResetKeepsCost ==
    /\ pc = "start"
    /\ flow' = ResetFlow(net)
    /\ cost' = cost
    /\ iteration_number' = 1
    /\ gap' = Inf
    /\ TSTT' = Inf
    /\ routes' = IF solver = "path_based_gp_method"
                 THEN [od \in ODPairs(net) |-> <<>>] ELSE <<>>
    /\ pc' = "while"
    /\ UNCHANGED <<cfg, network, label, pred, solver, alpha, x_bar, d_CFW, verbose,
                   shortest_routes, reports, err, written, iters, timedOut, run, firstTSTT,
                   firstFlow, appended>>

\* lines 425-431 and 651-658: network.reset_flow() and the locals
Reset ==
    /\ pc = "start"
    /\ flow' = ResetFlow(net)
    /\ cost' = ResetCost(net)
    /\ iteration_number' = 1
    /\ gap' = Inf
    /\ TSTT' = Inf
    /\ routes' = IF solver = "path_based_gp_method"
                 THEN [od \in ODPairs(net) |-> <<>>] ELSE <<>>
    /\ pc' = "while"
    /\ UNCHANGED <<cfg, network, label, pred, solver, alpha, x_bar, d_CFW, verbose,
                   shortest_routes, reports, err, written, iters, timedOut, run, firstTSTT,
                   firstFlow, appended>>

\* lines 434 and 661: while gap > accuracy
WhileTest ==
    /\ pc = "while"
    /\ IF RLt(cfg.accuracy, gap)
       THEN /\ pc' = IF solver = "assignment_loop" THEN "aon" ELSE "routes"
            /\ iters' = iters + 1
       ELSE /\ pc' = "final"
            /\ iters' = iters
    /\ UNCHANGED <<cfg, network, flow, cost, label, pred, solver, iteration_number, gap,
                   TSTT, alpha, x_bar, d_CFW, verbose, routes, shortest_routes, reports,
                   err, written, timedOut, run, firstTSTT, firstFlow, appended>>

\* lines 437-447: the all-or-nothing load and, for CFW, the conjugate direction
LoadAuxFlow ==
    /\ pc = "aon"
    /\ LET aon == loadAON_xbar(net, cost, TRUE)
           st == NodeStateAfterSweep(net, cost)
           d_FW == [l \in Links(net) |-> RSub(aon[l], flow[l])]
           d_bar == [l \in Links(net) |-> RMul(RSub(One, alpha), d_CFW[l])]
           beta == calculate_conjugate_beta(net, flow, d_FW, d_bar, cfg.systemOptimal)
           next_d == [l \in Links(net) |->
                        RAdd(d_FW[l], RMul(beta, RSub(d_bar[l], d_FW[l])))]
       IN  /\ label' = st.label
           /\ pred' = st.pred
           /\ IF cfg.algorithm # "CFW"
              THEN x_bar' = aon /\ d_CFW' = d_CFW /\ pc' = "step" /\ err' = err
              ELSE IF iteration_number = 1
              THEN x_bar' = aon /\ d_CFW' = d_FW /\ pc' = "step" /\ err' = err
              ELSE IF ConjugateBetaRaises(net)
              THEN x_bar' = aon /\ d_CFW' = d_CFW /\ Raise("ZeroDivisionError")
              ELSE /\ d_CFW' = next_d
                   /\ x_bar' = [l \in Links(net) |-> RAdd(next_d[l], flow[l])]
                   /\ pc' = "step"
                   /\ err' = err
    /\ UNCHANGED <<cfg, network, flow, cost, solver, iteration_number, gap, TSTT, alpha,
                   verbose, routes, shortest_routes, reports, written, iters, timedOut, run,
                   firstTSTT, firstFlow, appended>>

\* lines 449-460: the step size, or the error for an unknown algorithm
StepSize ==
    /\ pc = "step"
    /\ IF cfg.algorithm = "MSA" \/ iteration_number = 1
       THEN alpha' = Norm(2, iteration_number + 1) /\ pc' = "apply" /\ err' = err
       ELSE IF cfg.algorithm \in {"FW", "CFW"}
       THEN /\ alpha' = findAlpha(x_bar, net, flow, cfg.oracle[iteration_number])
            /\ pc' = "apply"
            /\ err' = err
       ELSE alpha' = alpha /\ Raise("TypeError")
    /\ UNCHANGED <<cfg, network, flow, cost, label, pred, solver, iteration_number, gap,
                   TSTT, x_bar, d_CFW, verbose, routes, shortest_routes, reports, written,
                   iters, timedOut, run, firstTSTT, firstFlow, appended>>

BlendFlow(a, xb, fl) ==
    [l \in DOMAIN fl |-> RAdd(RMul(a, xb[l]), RMul(RSub(One, a), fl[l]))]

\* lines 463-469: the flow improvement and updateTravelTime
ApplyFlow ==
    /\ pc = "apply"
    /\ flow' = BlendFlow(alpha, x_bar, flow)
    /\ cost' = updateTravelTime(net, flow', cfg.systemOptimal, cfg.costFunction)
    /\ pc' = "gap"
    /\ UNCHANGED <<cfg, network, label, pred, solver, iteration_number, gap, TSTT, alpha,
                   x_bar, d_CFW, verbose, routes, shortest_routes, reports, err, written,
                   iters, timedOut, run, firstTSTT, firstFlow, appended>>


\* line 662: the shortest route of every OD pair at the current costs
CalShortestRoutes ==
    /\ pc = "routes"
    /\ shortest_routes' = cal_shortest_routes(net, cost)
    /\ appended' = {}
    /\ label' = NodeStateAfterSweep(net, cost).label
    /\ pred' = NodeStateAfterSweep(net, cost).pred
    /\ pc' = "shift"
    /\ UNCHANGED <<cfg, network, flow, cost, solver, iteration_number, gap, TSTT, alpha,
                   x_bar, d_CFW, verbose, routes, reports, err, written, iters, timedOut,
                   run, firstTSTT, firstFlow>>

\* lines 663-666: iteration 1 puts every demand on its shortest route
FirstRoutes(shortest) ==
    [od \in ODPairs(net) |->
        IF od \in DOMAIN shortest
        THEN <<[shortest[od] EXCEPT !.flow = net.tripSet[od]]>>
        ELSE <<>>]

\* lines 673-687: the flow shift of every OD pair
ShiftRoutes(rts, shortest, step_direction, a) ==
    [od \in DOMAIN rts |->
        ShiftOD(rts[od], shortest[od], step_direction[od], a, net.tripSet[od])]

\* shortest_routes when the Route objects of the OD pairs in shared are the
\* last of their lists in rts: one object, seen through both names
SharedRoutes(rts, shortest, shared) ==
    [od \in DOMAIN shortest |->
        IF od \in shared THEN rts[od][Len(rts[od])] ELSE shortest[od]]

\* lines 663-687: the route-flow update of one iteration.  The shortest
\* route put into a list (lines 666 and 687) is the object shortest_routes
\* holds, so the flow assigned at line 665 or 686 shows there too.
ShiftRouteFlows ==
    /\ pc = "shift"
    /\ IF iteration_number = 1
       THEN /\ routes' = FirstRoutes(shortest_routes)
            /\ appended' = DOMAIN shortest_routes
            /\ alpha' = alpha
            /\ pc' = "netupdate"
            /\ err' = err
       ELSE IF \/ StepDirectionRaises(routes, shortest_routes, net)
               \/ /\ cfg.algorithm = "GP-E"
                  /\ LineSearchRaises(net, routes, shortest_routes,
                         obtain_step_direction(routes, shortest_routes, net, flow))
       THEN /\ routes' = routes
            /\ appended' = appended
            \* line 671 binds alpha before line 672 raises; GP-E raises
            \* inside line 669, which binds nothing
            /\ alpha' = IF cfg.algorithm = "GP-E" THEN alpha ELSE cfg.step_size
            /\ Raise("ZeroDivisionError")
       ELSE \E step_direction \in {obtain_step_direction(routes, shortest_routes, net, flow)} :
                /\ alpha' = IF cfg.algorithm = "GP-E"
                            THEN exact_line_search_alpha(
                                     LineSearchSolution(net, routes, shortest_routes,
                                         step_direction, cfg.oracle[iteration_number]))
                            ELSE cfg.step_size
                /\ routes' = ShiftRoutes(routes, shortest_routes, step_direction, alpha')
                /\ appended' = {od \in DOMAIN routes : Len(routes'[od]) > Len(routes[od])}
                /\ pc' = "netupdate"
                /\ err' = err
    /\ shortest_routes' = SharedRoutes(routes', shortest_routes, appended')
    /\ UNCHANGED <<cfg, network, flow, cost, label, pred, solver, iteration_number, gap,
                   TSTT, x_bar, d_CFW, verbose, reports, written, iters, timedOut, run,
                   firstTSTT, firstFlow>>

\* lines 690-692: link flows from route flows, link costs, route costs (of
\* the shortest route objects that are in routes too)
UpdateNetwork ==
    /\ pc = "netupdate"
    /\ flow' = update_network_flow(net, routes)
    /\ cost' = updateTravelTime(net, flow', cfg.systemOptimal, cfg.costFunction)
    /\ routes' = update_routes_cost(net, cost', routes)
    /\ shortest_routes' = SharedRoutes(routes', shortest_routes, appended)
    /\ pc' = "gap"
    /\ UNCHANGED <<cfg, network, label, pred, solver, iteration_number, gap, TSTT, alpha,
                   x_bar, d_CFW, verbose, appended, reports, err, written, iters, timedOut,
                   run, firstTSTT, firstFlow>>

\* round(x, 9): every SPTT and TSTT of the networks above is a rational
\* whose distance to any other is far above 1e-9, so rounding changes no
\* comparison or equality between them; a number of a negative power of M
\* rounds to 0
Round9(x) == IF Lev(x) < 0 THEN Zero ELSE x

\* the relative gap with a floor division, TSTT // SPTT - 1
RelativeGapFloor(tstt, sptt) ==
    LET q == RDiv(tstt, sptt)
    IN  IF q[1] < 0 \/ Lev(q) > 0 THEN RSub(q, One)
        ELSE IF Lev(q) < 0 THEN RNeg(One)
        ELSE RSub(R(q[1] \div q[2]), One)

RelativeGap(tstt, sptt) == RSub(RDiv(tstt, sptt), One)

\* lines 472-491 and 695-714: the relative gap, the report of a negative
\* gap, and the TSTT to return
ComputeGap ==
    /\ pc = "gap"
    /\ LET SPTT == Round9(loadAON_SPTT(net, cost))
           T == Round9(GapTSTT(net, flow, cost))
       IN  /\ label' = NodeStateAfterSweep(net, cost).label
           /\ pred' = NodeStateAfterSweep(net, cost).pred
           /\ IF SPTT = Zero
              THEN /\ Raise("ZeroDivisionError")
                   /\ TSTT' = T
                   /\ UNCHANGED <<gap, reports>>
              ELSE /\ gap' = RelativeGap(T, SPTT)
                   /\ reports' = IF RLt(gap', Zero)
                                 THEN Append(reports, "negative_gap") ELSE reports
                   /\ TSTT' = get_TSTT(net, flow, cfg.costFunction)
                   /\ pc' = "limits"
                   /\ err' = err
    /\ UNCHANGED <<cfg, network, flow, cost, solver, iteration_number, alpha, x_bar, d_CFW,
                   verbose, routes, shortest_routes, written, iters, timedOut, run,
                   firstTSTT, firstFlow, appended>>

\* the iteration limit tested one iteration late
LimitReachedLate(k, maxIter) == k > maxIter + 1

\* lines 494 and 717: if iteration_number > maxIter
LimitReached(k, maxIter) == k > maxIter

\* lines 495-500 and 503-507 (718-723, 726-730): the report of a limit, printed
\* when verbose
LimitReport(v, printed, status) == IF v THEN Append(printed, status) ELSE printed

\* lines 493-508 and 716-731: the iteration and time limits.  late is
\* whether time.time() - assignmentStartTime > maxTime at this point.
CheckLimits ==
    /\ pc = "limits"
    /\ iteration_number' = iteration_number + 1
    /\ \E late \in BOOLEAN :
        IF LimitReached(iteration_number', cfg.maxIter)
        THEN /\ reports' = LimitReport(verbose, reports, "max_iter")
             /\ verbose' = FALSE
             /\ pc' = "final"
             /\ timedOut' = timedOut
        ELSE IF late
        THEN /\ reports' = LimitReport(verbose, reports, "max_time")
             /\ verbose' = FALSE
             /\ pc' = "final"
             /\ timedOut' = TRUE
        ELSE /\ pc' = "while"
             /\ UNCHANGED <<reports, verbose, timedOut>>
    /\ UNCHANGED <<cfg, network, flow, cost, label, pred, solver, gap, TSTT, alpha, x_bar,
                   d_CFW, routes, shortest_routes, err, written, iters, run, firstTSTT,
                   firstFlow, appended>>

\* lines 510-516 and 733-739: the report of convergence and the return
Finish ==
    /\ pc = "final"
    /\ reports' = IF verbose THEN Append(reports, "converged") ELSE reports
    /\ pc' = IF cfg.entry = "computeAssingment" THEN "write" ELSE "returned"
    /\ UNCHANGED <<cfg, network, flow, cost, label, pred, solver, iteration_number, gap,
                   TSTT, alpha, x_bar, d_CFW, verbose, routes, shortest_routes, err,
                   written, iters, timedOut, run, firstTSTT, firstFlow, appended>>

\* computeAssingment, lines 859-866
WriteResults ==
    /\ pc = "write"
    /\ written' = TRUE
    /\ pc' = "ret"
    /\ UNCHANGED <<cfg, network, flow, cost, label, pred, solver, iteration_number, gap,
                   TSTT, alpha, x_bar, d_CFW, verbose, routes, shortest_routes, reports,
                   err, iters, timedOut, run, firstTSTT, firstFlow, appended>>

\* computeAssingment, line 868: return TSTT, a local no branch may have bound
ReturnTSTT ==
    /\ pc = "ret"
    /\ IF TSTT = Unbound THEN Raise("UnboundLocalError") ELSE pc' = "returned" /\ err' = err
    /\ UNCHANGED <<cfg, network, flow, cost, label, pred, solver, iteration_number, gap,
                   TSTT, alpha, x_bar, d_CFW, verbose, routes, shortest_routes, reports,
                   written, iters, timedOut, run, firstTSTT, firstFlow, appended>>

\* the networks whose capacities the caller changes between two runs, and
\* the delta_percentage it passes to modify_capacity
ModifiedNets == {1, 6}
DeltaPercentages == {<<-1, 2>>, <<1, 2>>}

\* between two runs the caller changes the capacity of a link
\* (Link.modify_capacity, lines 103-107); pc "idle": the caller's own code
ModifyCapacity ==
    /\ pc \in {"returned", "idle"}
    /\ run = 1
    /\ cfg.entry # "computeAssingment"
    /\ cfg.net \in ModifiedNets
    /\ \E l \in Links(network), delta_percentage \in DeltaPercentages :
          network' = [network EXCEPT
                         !.linkSet[l] = modify_capacity(@, delta_percentage)]
    /\ pc' = "idle"
    /\ firstTSTT' = IF pc = "returned" THEN TSTT ELSE firstTSTT
    /\ firstFlow' = IF pc = "returned" THEN flow ELSE firstFlow
    /\ UNCHANGED <<cfg, flow, cost, label, pred, solver, iteration_number, gap, TSTT, alpha,
                   x_bar, d_CFW, verbose, routes, shortest_routes, appended, reports, err,
                   written, iters, timedOut, run>>

\* between two runs the caller resets the network (FlowTransportNetwork.reset,
\* lines 36-38: Link.reset on every link)
ResetNetwork ==
    /\ pc \in {"returned", "idle"}
    /\ run = 1
    /\ cfg.entry # "computeAssingment"
    /\ cfg.net \in ModifiedNets
    /\ network' = [network EXCEPT !.linkSet =
                       [l \in Links(network) |-> reset_capacity(network.linkSet[l])]]
    /\ flow' = ResetFlow(network)
    /\ cost' = ResetCost(network)
    /\ pc' = "idle"
    /\ firstTSTT' = IF pc = "returned" THEN TSTT ELSE firstTSTT
    /\ firstFlow' = IF pc = "returned" THEN flow ELSE firstFlow
    /\ UNCHANGED <<cfg, label, pred, solver, iteration_number, gap, TSTT, alpha, x_bar,
                   d_CFW, verbose, routes, shortest_routes, appended, reports, err, written,
                   iters, timedOut, run>>

\* the same solver called a second time on the model the first call left
Rerun ==
    /\ pc \in {"returned", "error", "idle"}
    /\ run = 1
    /\ cfg.entry # "computeAssingment"
    /\ run' = 2
    /\ firstTSTT' = CASE pc = "returned" -> TSTT
                       [] pc = "error" -> Unbound
                       [] pc = "idle" -> firstTSTT
    /\ firstFlow' = IF pc = "idle" THEN firstFlow ELSE flow
    /\ pc' = "start"
    /\ iteration_number' = 0
    /\ gap' = Unbound
    /\ TSTT' = Unbound
    /\ alpha' = Unbound
    /\ x_bar' = ZeroLinks
    /\ d_CFW' = ZeroLinks
    /\ verbose' = cfg.verbose
    /\ routes' = <<>>
    /\ shortest_routes' = <<>>
    /\ appended' = {}
    /\ reports' = <<>>
    /\ err' = "none"
    /\ iters' = 0
    /\ UNCHANGED <<cfg, network, flow, cost, label, pred, solver, written, timedOut>>

Next ==
    \/ Dispatch
    \/ Reset
    \/ WhileTest
    \/ LoadAuxFlow
    \/ StepSize
    \/ ApplyFlow
    \/ CalShortestRoutes
    \/ ShiftRouteFlows
    \/ UpdateNetwork
    \/ ComputeGap
    \/ CheckLimits
    \/ Finish
    \/ WriteResults
    \/ ReturnTSTT
    \/ ModifyCapacity
    \/ ResetNetwork
    \/ Rerun

Spec == Init /\ [][Next]_vars


\* ------------------------------------------------- functions on their own
\* The functions of the program called directly, outside a solver run: cfg
\* holds the function called (unit) and its arguments, pc is "call" before
\* the call and "done" after it, and the variables the function writes or
\* returns into hold its results.

\* the arguments of a direct call of the BPR functions; capacity > 0
BPRInputs ==
    [unit : {"BPR"},
     optimal : BOOLEAN,
     fft : {One, R(10)},
     alpha : {One, <<1, 4>>},
     beta : {1, 2, 4},
     capacity : {One, R(2), R(4)},
     flow : {Zero, One, R(2), R(3), R(8)}]

\* the arguments of a direct call of a cost function at two flows, flow
\* and flow + more; capacity > 0
CostInputs ==
    [unit : {"cost"},
     costFunction : {"BPR", "constant", "greenshields"},
     optimal : BOOLEAN,
     fft : {One, R(10)},
     alpha : {<<1, 4>>},
     beta : {1, 2},
     capacity : {One, R(2), R(4)},
     length : {One, R(2)},
     maxSpeed : {One, R(2)},
     flow : {Zero, One, R(2), R(3)},
     more : {Zero, One, R(2)}]

\* the node labels and preds an earlier call can have left behind: those of
\* new Node objects, and labels 0 with the preds in a cycle
PriorNodeStates(n) ==
    {[label |-> [i \in Networks[n].nodes |-> Inf],
      pred |-> [i \in Networks[n].nodes |-> 0]],
     [label |-> [i \in Networks[n].nodes |-> Zero],
      pred |-> [i \in Networks[n].nodes |-> (i % Cardinality(Networks[n].nodes)) + 1]]}

\* link costs >= 0, zero included
UnitCosts(n) == [Links(Networks[n]) -> {Zero, One, R(2)}]

\* a direct call of DijkstraHeap on network 9 from any origin, followed by
\* tracePreds to every node
DijkstraInputs ==
    [unit : {"Dijkstra"},
     net : {9},
     origin : Networks[9].nodes,
     cost : UnitCosts(9),
     prior : PriorNodeStates(9)]

\* a direct call of loadAON on link flows 1 and any costs
LoadAONInputs ==
    UNION {[unit : {"loadAON"},
            net : {n},
            computeXbar : BOOLEAN,
            cost : UnitCosts(n),
            prior : PriorNodeStates(n)] : n \in {8, 9, 10}}

UnitInputs == BPRInputs \cup CostInputs \cup DijkstraInputs \cup LoadAONInputs

UnitInit ==
    /\ cfg \in UnitInputs
    /\ network = IF cfg.unit \in {"Dijkstra", "loadAON"} THEN Networks[cfg.net] ELSE <<>>
    /\ pc = "call"
    /\ flow = IF cfg.unit = "loadAON" THEN [l \in Links(net) |-> One] ELSE <<>>
    /\ cost = IF cfg.unit \in {"Dijkstra", "loadAON"} THEN cfg.cost ELSE <<>>
    /\ label = IF cfg.unit \in {"Dijkstra", "loadAON"} THEN cfg.prior.label ELSE <<>>
    /\ pred = IF cfg.unit \in {"Dijkstra", "loadAON"} THEN cfg.prior.pred ELSE <<>>
    /\ solver = "none"
    /\ iteration_number = 0
    /\ gap = Unbound
    /\ TSTT = Unbound
    /\ alpha = Unbound
    /\ x_bar = <<>>
    /\ d_CFW = <<>>
    /\ verbose = FALSE
    /\ routes = <<>>
    /\ shortest_routes = <<>>
    /\ appended = {}
    /\ reports = <<>>
    /\ err = "none"
    /\ written = FALSE
    /\ iters = 0
    /\ timedOut = FALSE
    /\ run = 1
    /\ firstTSTT = Unbound
    /\ firstFlow = <<>>

\* what BPRcostFunction, BPRcostFunctionDerivative and BPRcostFunctionIntegral
\* return for the arguments a, with the flow replaced by x
BPRValues(a, x) ==
    [cost |-> BPRcostFunction(a.optimal, a.fft, a.alpha, x, a.capacity, a.beta),
     derivative |->
         BPRcostFunctionDerivative(a.optimal, a.fft, a.alpha, x, a.capacity, a.beta),
     integral |->
         BPRcostFunctionIntegral(a.optimal, a.fft, a.alpha, x, a.capacity, a.beta)]

\* the three BPR functions called at the flow asked for and at flows 0, 1, 2
CallBPR ==
    /\ pc = "call"
    /\ cfg.unit = "BPR"
    /\ cost' = [at |-> BPRValues(cfg, cfg.flow),
                at0 |-> BPRValues(cfg, Zero),
                at1 |-> BPRValues(cfg, One),
                at2 |-> BPRValues(cfg, R(2))]
    /\ pc' = "done"
    /\ UNCHANGED <<cfg, network, flow, label, pred, solver, iteration_number, gap, TSTT,
                   alpha, x_bar, d_CFW, verbose, routes, shortest_routes, reports, err,
                   written, iters, timedOut, run, firstTSTT, firstFlow, appended>>

\* the cost function named by a, called at flow x
CostFunctionRaises(a, x) ==
    /\ a.costFunction = "greenshields"
    /\ GreenshieldsRaises(a.optimal, x, a.capacity, a.length, a.maxSpeed)

CostFunctionValue(a, x) ==
    CASE a.costFunction = "BPR" ->
            BPRcostFunction(a.optimal, a.fft, a.alpha, x, a.capacity, a.beta)
      [] a.costFunction = "constant" ->
            constantCostFunction(a.optimal, a.fft, a.alpha, x, a.capacity, a.beta)
      [] a.costFunction = "greenshields" ->
            greenshieldsCostFunction(a.optimal, x, a.capacity, a.length, a.maxSpeed)

\* a cost function called at flow 0, at flow and at flow + more
CallCostFunction ==
    /\ pc = "call"
    /\ cfg.unit = "cost"
    /\ LET flows == <<Zero, cfg.flow, RAdd(cfg.flow, cfg.more)>>
       IN  IF \E i \in 1..3 : CostFunctionRaises(cfg, flows[i])
           THEN Raise("ZeroDivisionError") /\ cost' = cost
           ELSE /\ cost' = [i \in 1..3 |-> CostFunctionValue(cfg, flows[i])]
                /\ pc' = "done"
                /\ err' = err
    /\ UNCHANGED <<cfg, network, flow, label, pred, solver, iteration_number, gap, TSTT,
                   alpha, x_bar, d_CFW, verbose, routes, shortest_routes, reports, written,
                   iters, timedOut, run, firstTSTT, firstFlow, appended>>

\* DijkstraHeap(origin, network), then tracePreds(dest, network) for every
\* node as dest
CallDijkstra ==
    /\ pc = "call"
    /\ cfg.unit = "Dijkstra"
    /\ label' = DijkstraHeap(cfg.origin, net, cost).label
    /\ pred' = DijkstraHeap(cfg.origin, net, cost).pred
    /\ routes' = [dest \in net.nodes |-> tracePreds(dest, pred')]
    /\ pc' = "done"
    /\ UNCHANGED <<cfg, network, flow, cost, solver, iteration_number, gap, TSTT, alpha,
                   x_bar, d_CFW, verbose, shortest_routes, reports, err, written, iters,
                   timedOut, run, firstTSTT, firstFlow, appended>>

\* loadAON(network, computeXbar): the returned pair (SPTT, x_bar) is kept in
\* x_bar; the nodes keep the labels and preds of the origin that the loop
\* over the set originZones takes last
CallLoadAON ==
    /\ pc = "call"
    /\ cfg.unit = "loadAON"
    /\ x_bar' = [SPTT |-> loadAON_SPTT(net, cost),
                 x_bar |-> loadAON_xbar(net, cost, cfg.computeXbar)]
    /\ \E r \in originZones(net) :
          /\ label' = DijkstraHeap(r, net, cost).label
          /\ pred' = DijkstraHeap(r, net, cost).pred
    /\ pc' = "done"
    /\ UNCHANGED <<cfg, network, flow, cost, solver, iteration_number, gap, TSTT, alpha,
                   d_CFW, verbose, routes, shortest_routes, reports, err, written, iters,
                   timedOut, run, firstTSTT, firstFlow, appended>>

UnitNext ==
    \/ CallBPR
    \/ CallCostFunction
    \/ CallDijkstra
    \/ CallLoadAON

UnitSpec == UnitInit /\ [][UnitNext]_vars

\* ------------------------------------------------------------ properties

\* the run has returned from its solver without an exception
SolverReturned ==
    /\ solver # "none"
    /\ pc \in {"write", "ret", "returned"}
    /\ err = "none"

\* the flow an OD pair's working routes carry together
RouteFlowSum(rs) == SeqSum([i \in 1..Len(rs) |-> rs[i].flow], Len(rs))

\* C1: in the path-based solver, after the route-flow update of any
\* iteration (cost ties between routes included), the flows of every OD
\* pair's working routes sum to that pair's demand.
C1_RouteFlowsSumToDemand ==
    (solver = "path_based_gp_method" /\ pc = "netupdate")
        => \A od \in LoadedODs(net) : RouteFlowSum(routes[od]) = net.tripSet[od]

\* the cost of the cheapest route from a to b at the current link costs
Dist(a, b) == DijkstraHeap(a, net, cost).label[b]

\* link l lies on a minimum-cost route of the OD pair od
OnShortestRoute(l, od) ==
    /\ ~IsInf(Dist(od[1], od[2]))
    /\ RAdd(RAdd(Dist(od[1], l[1]), cost[l]), Dist(l[2], od[2])) = Dist(od[1], od[2])

\* what leaves node n minus what enters it is what n sends minus what it receives
NodeBalance(n) ==
    RSub(RSum(flow, {l \in Links(net) : l[1] = n}),
         RSum(flow, {l \in Links(net) : l[2] = n}))
    = RSub(RSum(net.tripSet, {od \in LoadedODs(net) : od[1] = n /\ od[2] # n}),
           RSum(net.tripSet, {od \in LoadedODs(net) : od[2] = n /\ od[1] # n}))

\* Wardrop's condition on the link flows: all demand is assigned, and every
\* link that carries flow lies on a minimum-cost route of some OD pair
WardropLinks ==
    /\ \A n \in net.nodes : NodeBalance(n)
    /\ \A l \in Links(net) :
         RLt(Zero, flow[l]) => \E od \in LoadedODs(net) : OnShortestRoute(l, od)

\* Wardrop's condition on the working routes: every route that carries flow
\* costs what the cheapest route of its OD pair costs
WardropRoutes ==
    \A od \in LoadedODs(net) :
        /\ RouteFlowSum(routes[od]) = net.tripSet[od]
        /\ \A i \in 1..Len(routes[od]) :
             RLt(Zero, routes[od][i].flow)
                 => RSum(cost, Range(routes[od][i].links)) = Dist(od[1], od[2])

NonConvergenceReported ==
    "max_iter" \in Range(reports) \/ "max_time" \in Range(reports)

\* the last computed gap is above the accuracy asked for
NotConverged == RLt(cfg.accuracy, gap)

\* C3: for either value of verbose, whenever assignment_loop returns a TSTT,
\* the last gap is <= accuracy or a non-convergence status has been reported.
C3_NeverSilentNonConvergence ==
    (solver = "assignment_loop" /\ SolverReturned)
        => (~NotConverged \/ NonConvergenceReported)

\* C4: for an algorithm name outside {MSA, FW, CFW, GP, GP-E}, under every
\* entry point, no iteration runs and no result is written or returned.
C4_UnknownAlgorithmAbortsBeforeSolving ==
    cfg.algorithm \notin KnownAlgorithms
        => /\ iters = 0
           /\ ~written
           /\ pc # "returned"

\* the links whose current capacity is below the epsilon 1e-3
ClosedLinks == {l \in Links(net) : CapacityClosed(net.linkSet[l].capacity)}

\* C5: on a network with a link of capacity below 1e-3, for every known
\* algorithm, no step of any iteration raises an error, and after every
\* cost update the link's cost is the sentinel maximal value.
C5_ClosedLinkNeverCrashes ==
    (ClosedLinks # {} /\ cfg.algorithm \in KnownAlgorithms)
        => /\ err = "none"
           /\ pc \in {"gap", "limits"} => \A l \in ClosedLinks : cost[l] = FloatMax

\* C6: a negative gap does not end the run by itself (the loop test that
\* follows it starts another iteration) and the run is not reported as
\* converged while its last gap is negative.
C6_NegativeGapContinues ==
    [][/\ (pc = "while" /\ RLt(gap, Zero)) => pc' # "final"
       /\ (pc = "final" /\ RLt(gap, Zero)) => "converged" \notin Range(reports')]_vars

Max(a, b) == IF a > b THEN a ELSE b

\* the places of a run that lie inside an iteration
InIteration ==
    pc \in {"aon", "step", "apply", "routes", "shift", "netupdate", "gap", "limits"}

\* how far a call at pc is from its end, inside one pass of the loop
PcRank ==
    CASE pc = "dispatch" -> 12
      [] pc = "start" -> 11
      [] pc = "while" -> 10
      [] pc \in {"aon", "routes"} -> 9
      [] pc \in {"step", "shift"} -> 8
      [] pc \in {"apply", "netupdate"} -> 7
      [] pc = "gap" -> 6
      [] pc = "limits" -> 5
      [] pc = "final" -> 3
      [] pc = "write" -> 2
      [] pc = "ret" -> 1
      [] pc \in {"returned", "error", "idle"} -> 0

\* a bound on the steps a behaviour has left: the runs still to come, the
\* limit checks the current run can still pass, and the place in the loop
StepsLeft ==
    (2 - run) * 16 * (Max(1, cfg.maxIter) + 3)
        + (Max(1, cfg.maxIter) + 1 - iteration_number) * 16
        + PcRank

\* C7: both solver loops terminate (every step of a solver call lowers
\* StepsLeft, which is never negative; the caller's capacity changes between
\* two calls are no steps of a call); a run executes at least one and at most max(1, maxIter)
\* iterations; no iteration starts after a gap <= accuracy, after the
\* counter has exceeded maxIter or after the time limit was hit; the limits
\* are checked once per iteration, at its end.
C7_LoopsTerminate ==
    /\ [](/\ iters <= Max(1, cfg.maxIter)
          /\ SolverReturned => iters >= 1
          /\ InIteration => iteration_number = iters
          /\ pc = "while" => iteration_number = iters + 1
          /\ StepsLeft >= 0)
    /\ [][/\ pc' # "idle" => StepsLeft' < StepsLeft
          /\ iters' = iters + 1 =>
                /\ pc = "while"
                /\ NotConverged
                /\ iters >= 1 => ~LimitReached(iteration_number, cfg.maxIter)
          /\ (timedOut' /\ ~timedOut) => (pc = "limits" /\ pc' = "final")
          /\ (InIteration /\ iteration_number' # iteration_number)
                => (pc = "limits" /\ iteration_number' = iteration_number + 1)]_vars

\* a run that used its whole iteration budget and ended on the limit
C7_Witness ==
    /\ pc = "final"
    /\ cfg.maxIter >= 2
    /\ iters = cfg.maxIter
    /\ NotConverged

\* the final statuses a run has printed
FinalStatuses ==
    {i \in 1..Len(reports) : reports[i] \in {"converged", "max_iter", "max_time"}}

\* C8: with verbose on, a returned run has printed exactly one final
\* status; a non-convergence status only with a last gap > accuracy, and
\* "converged" only with a last gap <= accuracy that is not negative.
C8_OneStatusMatchingGap ==
    (cfg.verbose /\ SolverReturned)
        => /\ Cardinality(FinalStatuses) = 1
           /\ NonConvergenceReported => NotConverged
           /\ "converged" \in Range(reports) => (~NotConverged /\ ~RLt(gap, Zero))

\* C9: when no run ended on the time limit, the second of two successive
\* runs of a solver on the same model returns the TSTT and leaves the link
\* flows of the first, and raises when the first raised.
C9_RunsRepeatable ==
    (run = 2 /\ ~timedOut)
        => /\ pc = "returned" => (TSTT = firstTSTT /\ flow = firstFlow)
           /\ pc = "error" => firstTSTT = Unbound

\* a second run that returned after several iterations on a model the
\* first run had left loaded
C9_Witness ==
    /\ run = 2
    /\ ~timedOut
    /\ pc = "returned"
    /\ iters >= 2
    /\ firstFlow # ZeroLinks
    /\ TSTT = firstTSTT

\* the all-or-nothing loading at free-flow costs and the costs it leads to
FreeFlowAON == loadAON_xbar(net, ResetCost(net), TRUE)
LoadedCost == updateTravelTime(net, FreeFlowAON, cfg.systemOptimal, cfg.costFunction)

\* the free-flow shortest route of the OD pair od
FreeFlowRoute(od) == tracePreds(od[2], DijkstraHeap(od[1], net, ResetCost(net)).pred)

\* every OD pair's free-flow shortest route is still a shortest route once
\* all demand is loaded on it
AONStable ==
    \A od \in LoadedODs(net) :
        RSum(LoadedCost, Range(FreeFlowRoute(od)))
            = DijkstraHeap(od[1], net, LoadedCost).label[od[2]]

\* the sum over the OD pairs of demand x cost of the route, at link costs co
DemandTimesRouteCost(co) ==
    RSum([od \in LoadedODs(net) |->
            RMul(net.tripSet[od], RSum(co, Range(FreeFlowRoute(od))))],
         LoadedODs(net))

\* the travel time of every link at flows fl, as get_TSTT measures it: the
\* user-equilibrium cost at the link's max_capacity
TravelTime(fl) ==
    [l \in Links(net) |->
        CostOf(cfg.costFunction, FALSE, net.linkSet[l], fl[l], net.linkSet[l].max_capacity)]

OneIterationAtAON ==
    /\ iters = 1
    /\ gap = Zero
    /\ flow = FreeFlowAON

\* C10 as stated: where the free-flow shortest routes stay shortest, every
\* known algorithm stops after one iteration with gap 0 and the
\* all-or-nothing flows, and returns the sum of demand x route cost at the
\* final link costs.
C10_OneIterationRouteCost ==
    (SolverReturned /\ cfg.algorithm \in KnownAlgorithms /\ AONStable)
        => /\ OneIterationAtAON
           /\ TSTT = DemandTimesRouteCost(cost)

\* C10, with the cost the returned TSTT is measured in: the same, and the
\* returned TSTT is the sum of demand x route travel time, the travel time
\* of a link being its user-equilibrium cost at max_capacity.
C10_OneIterationTravelTime ==
    (SolverReturned /\ cfg.algorithm \in KnownAlgorithms /\ AONStable)
        => /\ OneIterationAtAON
           /\ TSTT = DemandTimesRouteCost(TravelTime(flow))

\* a stable network solved in one iteration whose final link costs are not
\* the travel times
C10_Witness ==
    /\ SolverReturned
    /\ cfg.algorithm \in KnownAlgorithms
    /\ AONStable
    /\ OneIterationAtAON
    /\ cost # TravelTime(flow)

\* the cost function as a polynomial of the flow, cost = c0 + K x flow^beta,
\* read off the values BPRcostFunction returns at flows 0 and 1
CostK == RSub(cost.at1.cost, cost.at0.cost)
CostIsPolynomial ==
    cost.at.cost = RAdd(cost.at0.cost, RMul(CostK, RPow(cfg.flow, cfg.beta)))

\* d cost / d flow of that polynomial: beta x K x flow^(beta - 1)
CostDerivative == RMul(RMul(R(cfg.beta), CostK), RPow(cfg.flow, cfg.beta - 1))

\* the integral function as a polynomial of the flow, A x flow + B x
\* flow^(beta + 1), read off the values it returns at flows 1 and 2
IntegralB ==
    RDiv(RSub(cost.at2.integral, RMul(R(2), cost.at1.integral)),
         RSub(RPow(R(2), cfg.beta + 1), R(2)))
IntegralA == RSub(cost.at1.integral, IntegralB)
IntegralIsPolynomial ==
    cost.at.integral = RAdd(RMul(IntegralA, cfg.flow),
                            RMul(IntegralB, RPow(cfg.flow, cfg.beta + 1)))

\* d integral / d flow of that polynomial: A + (beta + 1) x B x flow^beta
IntegralDerivative ==
    RAdd(IntegralA, RMul(RMul(R(cfg.beta + 1), IntegralB), RPow(cfg.flow, cfg.beta)))

\* C11: for capacity > 0 and both values of the system-optimal flag, the
\* derivative function is the derivative in flow of the cost function, the
\* derivative in flow of the integral function is the cost function, and
\* the integral is 0 at flow 0.
C11_DerivativeAndIntegralOfCost ==
    (cfg.unit = "BPR" /\ pc = "done")
        => /\ CostIsPolynomial
           /\ IntegralIsPolynomial
           /\ cost.at.derivative = CostDerivative
           /\ IntegralDerivative = cost.at.cost
           /\ cost.at0.integral = Zero

\* C12: for capacity > 0 and flows 0 <= flow <= flow + more (above the
\* capacity included), every cost function, in both variants, returns
\* without error a cost that is >= 0, >= its value at flow 0 and
\* non-decreasing in flow; the BPR cost at flow 0 is the free-flow time.
C12_CostNonNegativeNonDecreasing ==
    (cfg.unit = "cost" /\ pc \in {"done", "error"})
        => /\ err = "none"
           /\ RLe(Zero, cost[1])
           /\ RLe(cost[1], cost[2])
           /\ RLe(cost[2], cost[3])
           /\ cfg.costFunction = "BPR" => cost[1] = cfg.fft

\* an iteration of the running solver has updated the flows
FlowsUpdated == solver # "none" /\ iters >= 1 /\ pc \in {"gap", "limits"}

\* C13: after every iteration of the link-based solver (MSA, FW, CFW) and
\* of the path-based solver (GP, GP-E), every link's flow is >= 0 and every
\* route's flow is >= 0.
C13_FlowNeverNegative ==
    FlowsUpdated
        => /\ \A l \in Links(net) : RLe(Zero, flow[l])
           /\ solver = "path_based_gp_method" =>
                \A od \in DOMAIN routes : \A i \in 1..Len(routes[od]) :
                    RLe(Zero, routes[od][i].flow)

\* a shortest-path run or a gap computation is about to read the link costs
CostsAboutToBeRead == solver # "none" /\ pc \in {"aon", "routes", "gap"}

\* C14: whenever a shortest-path run (loadAON, cal_shortest_routes; the
\* first one after the reset included) or a gap computation reads the link
\* costs, every link's cost is the value of the active cost function (the
\* costFunction argument with the systemOptimal flag) at the link's current
\* flow and capacity.
C14_CostNeverStale ==
    CostsAboutToBeRead
        => cost = updateTravelTime(net, flow, cfg.systemOptimal, cfg.costFunction)

\* the routes (OD pair, position in its list) that contain link l
RoutesThrough(l) ==
    UNION {{<<od, i>> : i \in {j \in 1..Len(routes[od]) : l \in Range(routes[od][j].links)}}
           : od \in DOMAIN routes}

\* the sum of the flows of the routes that contain link l
RouteFlowOn(l) ==
    RSum([p \in RoutesThrough(l) |-> routes[p[1]][p[2]].flow], RoutesThrough(l))

\* C15: in the path-based solver, when the link costs and the gap are
\* computed, every link's flow is the sum of the flows of the routes that
\* contain it; a link on no route has flow 0.
C15_LinkFlowIsRouteFlowSum ==
    (solver = "path_based_gp_method" /\ pc = "gap")
        => \A l \in Links(net) : flow[l] = RouteFlowOn(l)

\* a later iteration in which two routes with flow share a link while
\* another link lies on a single route
C15_Witness ==
    /\ solver = "path_based_gp_method"
    /\ pc = "gap"
    /\ iters >= 2
    /\ \E l \in Links(net) :
          Cardinality({p \in RoutesThrough(l) :
                          RLt(Zero, routes[p[1]][p[2]].flow)}) >= 2
    /\ \E l \in Links(net) : Cardinality(RoutesThrough(l)) = 1

\* the least cost of a path of at most k links from a to b at the link
\* costs co (+inf: no such path)
RECURSIVE DistWithin(_, _, _, _)
DistWithin(k, a, b, co) ==
    IF k = 0 THEN (IF a = b THEN Zero ELSE Inf)
    ELSE LET into == {l \in DOMAIN co : l[2] = b}
             via == [l \in into |-> RAdd(DistWithin(k - 1, a, l[1], co), co[l])]
             best == IF into = {} THEN Inf
                     ELSE via[CHOOSE l \in into : \A m \in into : RLe(via[l], via[m])]
         IN  RMin(DistWithin(k - 1, a, b, co), best)

\* the least cost of any path from a to b: a least-cost path repeats no node
MinPathCost(a, b) == DistWithin(Cardinality(net.nodes) - 1, a, b, cost)

\* p lists the links of a path from a to b that repeats no node, the last
\* link first
IsReversedSimplePath(p, a, b) ==
    /\ Len(p) >= 1
    /\ \A i \in 1..Len(p) : p[i] \in Links(net)
    /\ p[1][2] = b
    /\ p[Len(p)][1] = a
    /\ \A i \in 1..(Len(p) - 1) : p[i][1] = p[i + 1][2]
    /\ \A i, j \in 1..Len(p) : p[i][2] = p[j][2] => i = j
    /\ \A i \in 1..Len(p) : p[i][2] # a

\* C16: for link costs >= 0 (zero costs and cycles included) and whatever
\* labels and preds were there before, DijkstraHeap ends with every
\* reachable node's label equal to the least path cost from the origin,
\* every unreachable node's label +inf and its pred None, and the origin's
\* label 0 and pred None; tracePreds then returns, last link first, a path
\* from the origin that repeats no node and whose costs sum to the label,
\* and the empty list for the origin and for an unreachable node.
C16_DijkstraShortestPaths ==
    (cfg.unit = "Dijkstra" /\ pc \in {"done", "error"})
        => /\ pc = "done"
           /\ label[cfg.origin] = Zero /\ pred[cfg.origin] = 0
           /\ \A n \in net.nodes :
                /\ label[n] = MinPathCost(cfg.origin, n)
                /\ IsInf(label[n]) => pred[n] = 0
                /\ IF n = cfg.origin \/ IsInf(label[n])
                   THEN routes[n] = <<>>
                   ELSE /\ IsReversedSimplePath(routes[n], cfg.origin, n)
                        /\ RSum(cost, Range(routes[n])) = label[n]

\* a call that started from labels 0 and preds in a cycle, on costs with a
\* zero-cost cycle, where a node is unreachable and another one is reached
\* over two links
C16_Witness ==
    /\ cfg.unit = "Dijkstra" /\ pc = "done"
    /\ cfg.prior.pred[1] # 0
    /\ cost[<<1, 2>>] = Zero /\ cost[<<2, 1>>] = Zero
    /\ \E n \in net.nodes : IsInf(label[n])
    /\ \E n \in net.nodes : Len(routes[n]) = 2

\* the OD pairs loadAON serves: positive demand, destination in the
\* origin's destList
ServedODs == {od \in ODs(net) : /\ od[2] \in Range(net.destList[od[1]])
                                /\ RLt(Zero, net.tripSet[od])}

\* the route tracePreds reconstructs for an OD pair after the search from
\* its origin
ReconstructedRoute(od) == tracePreds(od[2], DijkstraHeap(od[1], net, cost).pred)

\* C17: loadAON returns SPTT = the sum over the OD pairs with positive
\* demand of demand x least path cost, and x_bar in which every link holds
\* the sum of the demands of the OD pairs whose reconstructed shortest route
\* contains it (0 on every link when computeXbar is false); when every
\* destination is reachable the sum over links of x_bar x cost equals SPTT;
\* loadAON changes no link flow and no link cost.
C17_LoadAON ==
    (cfg.unit = "loadAON" /\ pc \in {"done", "error"})
        => /\ pc = "done"
           /\ x_bar.SPTT = RSum([od \in ServedODs |->
                                   RMul(net.tripSet[od], MinPathCost(od[1], od[2]))],
                                ServedODs)
           /\ \A l \in Links(net) :
                x_bar.x_bar[l] =
                    IF cfg.computeXbar
                    THEN RSum(net.tripSet,
                              {od \in ServedODs : l \in Range(ReconstructedRoute(od))})
                    ELSE Zero
           /\ (cfg.computeXbar /\ ~IsInf(x_bar.SPTT))
                => RSum([l \in Links(net) |-> RMul(x_bar.x_bar[l], cost[l])], Links(net))
                   = x_bar.SPTT
           /\ flow = [l \in Links(net) |-> One]
           /\ cost = cfg.cost

\* a call with computeXbar on which two OD pairs' routes share a link, every
\* destination is reached, and SPTT is positive
C17_Witness ==
    /\ cfg.unit = "loadAON" /\ pc = "done"
    /\ cfg.computeXbar
    /\ ~IsInf(x_bar.SPTT) /\ RLt(Zero, x_bar.SPTT)
    /\ \E l \in Links(net) :
          Cardinality({od \in ServedODs : l \in Range(ReconstructedRoute(od))}) >= 2

\* the link-based solver is about to blend the flows with the step size alpha
Blending == solver = "assignment_loop" /\ pc = "apply"

\* C18: in every iteration k (from 1) of assignment_loop the step size alpha
\* used for blending lies in [0, 1] and every link's new flow is
\* alpha x x_bar + (1 - alpha) x old flow; for MSA alpha is 2 / (k + 1); for
\* FW and CFW the first iteration has alpha = 1, so that the flows become
\* the all-or-nothing loading, and a later iteration has the line-search
\* result clamped to [0, 1].
C18_StepSizeAndBlend ==
    [][(Blending /\ pc' = "gap")
        => /\ RLe(Zero, alpha) /\ RLe(alpha, One)
           /\ \A l \in Links(net) :
                flow'[l] = RAdd(flow[l], RMul(alpha, RSub(x_bar[l], flow[l])))
           /\ cfg.algorithm = "MSA" => alpha[1] * (iteration_number + 1) = 2 * alpha[2]
           /\ (cfg.algorithm \in {"FW", "CFW"} /\ iteration_number = 1)
                => /\ alpha = One
                   /\ flow' = loadAON_xbar(net, cost, TRUE)
           /\ (cfg.algorithm \in {"FW", "CFW"} /\ iteration_number > 1)
                => alpha = RMax(Zero, RMin(One,
                               findAlpha(x_bar, net, flow, cfg.oracle[iteration_number])))
      ]_vars

\* a Frank-Wolfe or conjugate iteration after the first has blended the
\* flows of several routes with a step size strictly between 0 and 1
C18_Witness ==
    /\ solver = "assignment_loop" /\ pc = "gap"
    /\ cfg.algorithm \in {"FW", "CFW"}
    /\ iteration_number > 1
    /\ RLt(Zero, alpha) /\ RLt(alpha, One)
    /\ Cardinality({l \in Links(net) : RLt(Zero, flow[l])}) >= 4

\* the conjugate step of CFW is about to run: a CFW iteration after the first
ConjugateStep ==
    /\ solver = "assignment_loop" /\ pc = "aon"
    /\ cfg.algorithm = "CFW" /\ iteration_number > 1

\* what the conjugate step hands to calculate_conjugate_beta
StepAON == loadAON_xbar(net, cost, TRUE)
StepDFW == [l \in Links(net) |-> RSub(StepAON[l], flow[l])]
StepDBar == [l \in Links(net) |-> RMul(RSub(One, alpha), d_CFW[l])]
BetaNumerator ==
    RSum([l \in Links(net) |->
            RMul(RMul(StepDBar[l], StepDFW[l]),
                 LinkDerivative(net, flow, cfg.systemOptimal, l))], Links(net))
BetaDenominator ==
    RSum([l \in Links(net) |->
            RMul(RMul(StepDBar[l], RSub(StepDFW[l], StepDBar[l])),
                 LinkDerivative(net, flow, cfg.systemOptimal, l))], Links(net))

\* the value the claim gives calculate_conjugate_beta: 0 for a zero
\* denominator, else the quotient clamped into [0, 1 - 1e-9]
ClaimedBeta ==
    IF BetaDenominator = Zero THEN Zero
    ELSE RMax(Zero, RMin(OneMinusEps, RDiv(BetaNumerator, BetaDenominator)))

\* C19: calculate_conjugate_beta never raises and returns a value in
\* [0, 1 - 1e-9], 0 when its denominator is zero and the clamped quotient
\* otherwise; the auxiliary flow x_bar of the CFW iteration is then the
\* convex combination (1 - beta) x all-or-nothing flow + beta x previous
\* x_bar.
C19_ConjugateBeta ==
    [][ConjugateStep
        => /\ pc' = "step"
           /\ RLe(Zero, ClaimedBeta) /\ RLe(ClaimedBeta, OneMinusEps)
           /\ \A l \in Links(net) :
                x_bar'[l] = RAdd(RMul(RSub(One, ClaimedBeta), StepAON[l]),
                                 RMul(ClaimedBeta, x_bar[l]))
      ]_vars

\* a GP or GP-E iteration after the first shifts the route flows
RouteShift ==
    /\ solver = "path_based_gp_method" /\ pc = "shift"
    /\ iteration_number > 1
    /\ pc' = "netupdate"

\* route i of the OD pair is the pair's current shortest route
IsShortest(od, i) == Range(routes[od][i].links) = Range(shortest_routes[od].links)

\* h of route i: the BPR derivatives over the symmetric difference of the
\* route's links and the shortest route's links
ShiftH(od, i) ==
    LET link_set == SymDiff(Range(routes[od][i].links), Range(shortest_routes[od].links))
    IN  RSum([l \in link_set |-> LinkDerivative(net, flow, FALSE, l)], link_set)

\* the flow the claim gives route i after the shift with step size a
ShiftedTo(od, i, a) ==
    IF ShiftH(od, i) = Zero THEN Zero
    ELSE RMax(Zero,
              RSub(routes[od][i].flow,
                   RMul(a, RDiv(RSub(routes[od][i].cost, shortest_routes[od].cost),
                                ShiftH(od, i)))))

\* C20: in every GP / GP-E iteration after the first, for every OD pair,
\* each route other than the current shortest route gets the flow
\* max(0, old flow - alpha x direction), direction = (route cost - shortest
\* cost) / h, h the sum of the BPR derivatives over the symmetric difference
\* of the two routes' links, so that its flow never increases (h = 0:
\* direction +inf, flow 0); exactly one route, the current shortest one,
\* receives the demand minus the sum of the other routes' new flows.
C20_RouteFlowShift ==
    [][RouteShift
        => \A od \in DOMAIN routes :
            LET old == routes[od]
                new == routes'[od]
                target == {j \in 1..Len(new) :
                             Range(new[j].links) = Range(shortest_routes[od].links)}
            IN  /\ Len(new) >= Len(old)
                /\ \A i \in 1..Len(old) :
                      ~IsShortest(od, i)
                        => /\ new[i].links = old[i].links
                           /\ new[i].flow = ShiftedTo(od, i, alpha')
                           /\ RLe(new[i].flow, old[i].flow)
                /\ Cardinality(target) = 1
                /\ \A j \in target :
                      new[j].flow =
                        RSub(net.tripSet[od],
                             SeqSum([i \in 1..Len(new) |->
                                       IF i = j THEN Zero ELSE new[i].flow], Len(new)))
      ]_vars

\* the OD pair has a working route with the links of route rt
HasRouteLike(rs, rt) == \E i \in 1..Len(rs) : rs[i].links = rt.links

\* no two routes of the list have the same link sequence
NoDuplicateRoutes(rs) ==
    \A i, j \in 1..Len(rs) : rs[i].links = rs[j].links => i = j

\* C21: the route set of every OD pair grows monotonically and without
\* duplicates: after the first iteration every OD pair with positive demand
\* has exactly one route; in every later iteration no route is removed, the
\* current shortest route is appended if and only if no route of the set
\* has its links, at most one route is appended, and no two routes of a set
\* have the same link sequence.
C21_RouteSetsGrow ==
    [][(solver = "path_based_gp_method" /\ pc = "shift" /\ pc' = "netupdate")
        => \A od \in LoadedODs(net) :
            LET old == routes[od]
                new == routes'[od]
            IN  /\ NoDuplicateRoutes(new)
                /\ iteration_number = 1 => Len(new) = 1
                /\ iteration_number > 1
                     => /\ Len(new) \in {Len(old), Len(old) + 1}
                        /\ \A i \in 1..Len(old) : new[i].links = old[i].links
                        /\ Len(new) = Len(old) + 1
                             <=> ~HasRouteLike(old, shortest_routes[od])
                        /\ Len(new) = Len(old) + 1
                             => new[Len(new)].links = shortest_routes[od].links
      ]_vars

\* C22: a solver run changes only link flow, link cost and the node label
\* and pred fields: no step of a call (every step but the caller's
\* modify_capacity and reset between two calls) changes a link capacity (a
\* capacity reduced by modify_capacity before the run included), a static
\* link parameter, the adjacency lists, the demand table, the destination
\* lists or the origin set.
C22_RunKeepsNetwork ==
    [][pc' # "idle"
         => /\ Links(network') = Links(network)
            /\ \A l \in Links(network) :
                   /\ network'.linkSet[l].capacity = network.linkSet[l].capacity
                   /\ network'.linkSet[l] = network.linkSet[l]
            /\ network'.nodes = network.nodes
            /\ network'.outLinks = network.outLinks
            /\ network'.tripSet = network.tripSet
            /\ network'.destList = network.destList
            /\ originZones(network') = originZones(network)]_vars

\* a second run has returned on the network whose capacity modify_capacity
\* halved, with flow on the link
C22_Witness ==
    /\ pc = "returned"
    /\ run = 2
    /\ solver \in {"assignment_loop", "path_based_gp_method"}
    /\ \E l \in Links(network) :
           /\ RLt(network.linkSet[l].capacity, network.linkSet[l].max_capacity)
           /\ RLt(Zero, flow[l])

====
